---- MODULE Spec2Model ----
(***************************************************************************)
(* A model of CometMarquee (src/src/index.js): the page-wide registry of   *)
(* CometMarqueeInstance objects, each instance's measurement, clone        *)
(* builder, per-frame position model, pause/resume/sync controller and     *)
(* ResizeObserver guard, together with the host that drives them (clock,   *)
(* animation frames, timers, layout sizes).                                *)
(*                                                                         *)
(* Lengths are whole layout units.  Time is in milliseconds.  The          *)
(* translation is kept multiplied by Scale, so that the step               *)
(* speed * (currentTime - lastTime) / 1000 of animate() is exact.          *)
(***************************************************************************)
EXTENDS Integers, Sequences, FiniteSets, TLC

VARIABLES
    inst,       \* id -> the fields of the CometMarqueeInstance (and its DOM subtree)
    options,    \* id -> this.options of the instance
    registry,   \* window.__allCometMarqueeInstances, a sequence of ids
    rect,       \* id -> container.getBoundingClientRect(): [width, height]
    win,        \* window: [innerWidth, innerHeight]
    itemSize,   \* id -> (element id -> its extent along the scroll axis)
    now,        \* performance.now(), ms
    last,       \* the last operation or host event handled: <<name, instance, n>>,
                \* n = 2 when the one before it was the same, else 1
    snapshot,   \* what an observer noted of the instance before its last addItem
    page,       \* the document: which containers hold a content surface and which
                \* carry the class is-init-comet-marquee, the reduced-motion
                \* preference, document visibility, and the instances whose
                \* listeners are attached, in the order they were added
    api         \* the CometMarquee bindings returned so far (each the sequence
                \* of its instances; two bindings of the same instances behave
                \* alike), and of the last constructor or method call on one:
                \* the error it ended in and, if it did, the number of
                \* instances it had reached

vars == <<inst, options, registry, rect, win, itemSize, now, last, snapshot, page, api>>

---------------------------------------------------------------------------
(* Bounds of the model *)

NumInst == 2
MaxItems == 3
MaxTicks == 1

(* Program constants *)

Scale == 1000
RefreshGuardMs == 500
RateLimitMs == 50
DebounceMs == 300
MaxCalls == 100
MaxSets == 20
MaxClones == 100
MinDiff == 5
RealDiff == 10
MinPrependSets == 2
OrientationMs == 200

None == 0 - 1

Inst == 1 .. NumInst
\* the containers of the page: those instances are built over, and after
\* them one that lacks the .comet-marquee-content child
Bare == NumInst + 1
Containers == Inst \cup {Bare}
ItemIds == 1 .. MaxItems

---------------------------------------------------------------------------
(* Arithmetic helpers *)

Max(a, b) == IF a >= b THEN a ELSE b
Min(a, b) == IF a <= b THEN a ELSE b
Abs(a) == IF a >= 0 THEN a ELSE 0 - a

\* Math.ceil(a / b) for b > 0
Ceil(a, b) == IF a >= 0 THEN (a + b - 1) \div b ELSE 0 - ((0 - a) \div b)

\* F applied to the value of v (v is evaluated once)
Then(v, F(_)) == CHOOSE r \in {F(x) : x \in {v}} : TRUE

RECURSIVE SumRange(_, _, _)
SumRange(s, lo, hi) ==
    IF lo > hi THEN 0
    ELSE IF lo = hi THEN s[lo]
    ELSE LET mid == (lo + hi) \div 2
         IN SumRange(s, lo, mid) + SumRange(s, mid + 1, hi)

\* the sum of the numbers of a sequence
SumSeq(s) == SumRange(s, 1, Len(s))

\* n copies of the sequence s, one after the other
Repeat(s, n) ==
    IF n <= 0 \/ Len(s) = 0 THEN <<>>
    ELSE [k \in 1 .. n * Len(s) |-> s[((k - 1) % Len(s)) + 1]]

---------------------------------------------------------------------------
(* The DOM subtree of an instance: content.children is a sequence of       *)
(* elements [id, cls]; cls is "orig" for an original item, "clone" for an  *)
(* appended clone and "prepend" for a clone inserted before the originals. *)

Elem(id, cls) == [id |-> id, cls |-> cls]

IsClone(e) == e.cls # "orig"

\* the children without the filter: clones pass for items
OriginalsAndClones(children) == [k \in 1 .. Len(children) |-> children[k].id]

\* Array.from(content.children).filter(c => !c.classList.contains('comet-marquee-clone'))
Originals(children) ==
    LET keep == SelectSeq(children, LAMBDA e : ~IsClone(e))
    IN [k \in 1 .. Len(keep) |-> keep[k].id]

Attached(children, id) == \E k \in 1 .. Len(children) : children[k] = Elem(id, "orig")

\* getBoundingClientRect() of an item along the axis: a detached element measures 0
ItemExtent(s, i, id) == IF Attached(s.children, id) THEN itemSize[i][id] ELSE 0

CloneCount(s) == Len(SelectSeq(s.children, IsClone))
PrependCount(s) == Len(SelectSeq(s.children, LAMBDA e : e.cls = "prepend"))

---------------------------------------------------------------------------
(* 4.1 Dimension & Layout Calculator *)

getTotalSize(s, i) ==
    LET n == Len(s.items)
    IN IF n = 0 THEN 0
       ELSE SumSeq([k \in 1 .. n |-> ItemExtent(s, i, s.items[k])]) + options[i].gap * (n - 1)

\* the comparison without the tolerance
NaturalNoTolerance(contentSize, containerSize) == contentSize >= containerSize

\* line 299: the natural result, with its 1-unit tolerance
Natural(contentSize, containerSize) == contentSize > containerSize + 1

calculateDimensions(s, i) ==
    LET containerSize == IF options[i].vertical THEN rect[i].height ELSE rect[i].width
        contentSize == getTotalSize(s, i)
        natural == IF contentSize <= 0 THEN FALSE ELSE Natural(contentSize, containerSize)
        forced == options[i].forceAnimation /\ ~natural /\ contentSize > 0
    IN [s EXCEPT !.containerWidth = rect[i].width,
                 !.containerHeight = rect[i].height,
                 !.containerSize = containerSize,
                 !.contentWidth = contentSize,
                 !.contentSize = contentSize,
                 !.shouldAnimate = natural \/ forced,
                 !.forceAnimationEnabled = forced]

---------------------------------------------------------------------------
(* 4.2 Clone / Loop Builder *)

calculateForceAnimationClones(s, i) ==
    IF ~s.forceAnimationEnabled \/ Len(s.items) = 0 THEN 0
    ELSE LET viewportSize == IF options[i].vertical THEN win.innerHeight ELSE win.innerWidth
             targetSize == viewportSize * options[i].forceAnimationWidth
             setsNeeded == Min(Ceil(targetSize, s.contentWidth), MaxSets)
             clonesNeeded == Max(0, (setsNeeded - 1) * Len(s.items))
         IN Min(clonesNeeded, MaxClones)

\* the extent of an attached element (an original or a clone of it)
ElemExtent(i, e) == itemSize[i][e.id]

Shift(s, i) ==
    IF options[i].initialShift.kind = "true" THEN s.containerSize
    ELSE IF options[i].initialShift.kind = "number" THEN options[i].initialShift.px
    ELSE 0

setupContent(s, i) ==
    LET kept == SelectSeq(s.children, LAMBDA e : ~IsClone(e))
        n == Len(s.items)
    IN IF ~s.shouldAnimate
       THEN [s EXCEPT !.children = kept,
                      !.contentStyle = None,
                      !.currentTranslate = 0,
                      !.contentSetup = FALSE]
       ELSE
         LET referenceWidth == Max(s.containerWidth, win.innerWidth)
             forceClonesCount == calculateForceAnimationClones(s, i)
             repeatCount == Max(options[i].repeatCount,
                                Ceil(referenceWidth * options[i].repeatCount, s.contentWidth))
             appended ==
                 IF s.forceAnimationEnabled
                 THEN [k \in 1 .. forceClonesCount |->
                          Elem(s.items[((k - 1) % n) + 1], "clone")]
                 ELSE Repeat([k \in 1 .. n |-> Elem(s.items[k], "clone")], repeatCount)
             prependSets == Max(MinPrependSets, Ceil(referenceWidth, s.contentWidth) + 1)
             prepended ==
                 IF options[i].reverse
                 THEN Repeat([k \in 1 .. n |-> Elem(s.items[k], "prepend")], prependSets)
                 ELSE <<>>
             all == prepended \o kept \o appended
             totalSizeWithClones ==
                 SumSeq([k \in 1 .. Len(all) |-> ElemExtent(i, all[k])])
                     + options[i].gap * (Len(all) - 1)
             prependWidth ==
                 IF Len(prepended) > 0
                 THEN SumSeq([k \in 1 .. Len(prepended) |-> ElemExtent(i, prepended[k])])
                          + options[i].gap * Len(prepended)
                 ELSE 0
             loopSize == s.contentWidth + options[i].gap
         IN [s EXCEPT !.children = all,
                      !.contentSetup = TRUE,
                      !.contentStyle = totalSizeWithClones,
                      !.loopWidth = loopSize,
                      !.prependWidth = prependWidth,
                      !.currentTranslate =
                          IF options[i].reverse
                          THEN (0 - prependWidth - loopSize + Shift(s, i)) * Scale
                          ELSE (0 - Shift(s, i)) * Scale,
                      !.cycles = 0,
                      !.travelled = 0]

---------------------------------------------------------------------------
(* 4.3 Animation Loop & Position Model.  rafPending counts the callbacks   *)
(* requestAnimationFrame has queued and not yet run or cancelled;          *)
(* animationId is "null", "pending" (the handle of a queued callback) or   *)
(* "stale" (the handle of a callback that already ran).                    *)

cancelAnimationFrame(s) ==
    IF s.animationId = "pending" THEN [s EXCEPT !.rafPending = @ - 1, !.animationId = "stale"]
    ELSE s

\* line 780: this.loopWidth || (this.contentWidth + this.options.gap)
LoopSize(s, i) == IF s.loopWidth # 0 THEN s.loopWidth ELSE s.contentWidth + options[i].gap

\* animate() that lets the time reference stand while paused
animateHoldingTime(s, i, currentTime) ==
    IF ~s.isAnimating THEN s
    ELSE IF s.isPaused THEN [s EXCEPT !.animationId = "pending", !.rafPending = @ + 1]
    ELSE [s EXCEPT !.currentTranslate = @ - options[i].speed * (currentTime - s.lastTime),
                   !.travelled = @ + options[i].speed * (currentTime - s.lastTime),
                   !.lastTime = currentTime,
                   !.animationId = "pending",
                   !.rafPending = @ + 1]

animate(s, i, currentTime) ==
    IF ~s.isAnimating THEN s
    ELSE
      LET step == options[i].speed * (currentTime - s.lastTime)
          loopSize == LoopSize(s, i) * Scale
          wrapPoint == 0 - s.prependWidth * Scale
          fwd == s.currentTranslate - step
          rev == s.currentTranslate + step
          wraps == IF options[i].reverse THEN rev >= wrapPoint ELSE fwd <= 0 - loopSize
          moved ==
              IF s.isPaused THEN s
              ELSE [s EXCEPT !.currentTranslate =
                                 IF options[i].reverse
                                 THEN (IF wraps THEN rev - loopSize ELSE rev)
                                 ELSE (IF wraps THEN fwd + loopSize ELSE fwd),
                             !.cycles = IF wraps THEN @ + 1 ELSE @,
                             !.travelled = @ + step]
      IN [moved EXCEPT !.lastTime = currentTime,
                       !.animationId = "pending",
                       !.rafPending = @ + 1]

\* startAnimation() without its shouldAnimate guard
startAnimationUnguarded(s, i) ==
    Then(cancelAnimationFrame([s EXCEPT !.isAnimating = TRUE,
                                        !.isPaused = FALSE,
                                        !.lastTime = now]),
         LAMBDA c : animate(c, i, now))

\* startAnimation() that schedules without cancelling the queued callback
startAnimationKeepingFrame(s, i) ==
    IF ~s.shouldAnimate THEN s
    ELSE Then([s EXCEPT !.isAnimating = TRUE,
                        !.isPaused = FALSE,
                        !.lastTime = now],
              LAMBDA c : animate(c, i, now))

startAnimation(s, i) ==
    IF ~s.shouldAnimate THEN s
    ELSE Then(cancelAnimationFrame([s EXCEPT !.isAnimating = TRUE,
                                             !.isPaused = FALSE,
                                             !.lastTime = now]),
              LAMBDA c : animate(c, i, now))

stopWithoutCancel(s) ==
    [s EXCEPT !.isAnimating = FALSE, !.animationId = "null"]

stop(s) ==
    Then(IF s.animationId # "null" THEN cancelAnimationFrame(s) ELSE s, LAMBDA c :
    [c EXCEPT !.isAnimating = FALSE, !.animationId = "null"])

\* the requestAnimationFrame callback: the oldest queued callback runs
frame(s, i) ==
    Then([s EXCEPT !.rafPending = @ - 1,
                   !.animationId = IF s.rafPending = 1 /\ @ = "pending" THEN "stale" ELSE @],
         LAMBDA taken : animate(taken, i, now))

---------------------------------------------------------------------------
(* init() and refresh() *)

init(s, i) ==
    Then(calculateDimensions([s EXCEPT !.isInitializing = TRUE], i), LAMBDA m :
    Then(setupContent(m, i), LAMBDA b :
    Then(startAnimation(b, i), LAMBDA r :
    [r EXCEPT !.isInitializing = FALSE])))

refresh(s, i) ==
    IF s.isRefreshing \/ s.isInitializing THEN s
    ELSE Then(stop([s EXCEPT !.isRefreshing = TRUE]), LAMBDA s0 :
         Then([s0 EXCEPT !.items = Originals(s0.children)], LAMBDA s1 :
         Then(init(s1, i), LAMBDA r :
         [r EXCEPT !.refreshGuardAt = now + RefreshGuardMs])))

---------------------------------------------------------------------------
(* 4.5 Pause/Resume & Synchronization Controller.  These act on the whole  *)
(* registry: I is the function id -> instance.                             *)

InRegistry(b) == \E k \in 1 .. Len(registry) : registry[k] = b

\* lines 821-836, against the registry as it stands when pause() is called
pauseIn(reg, I, a) ==
    [b \in Inst |->
        IF b = a THEN [I[b] EXCEPT !.isPaused = TRUE]
        ELSE IF options[a].syncPause /\ (\E k \in 1 .. Len(reg) : reg[k] = b)
             THEN [I[b] EXCEPT !.isPaused = TRUE]
        ELSE I[b]]

pauseEveryInstance(I, a) ==
    [b \in Inst |-> IF b = a \/ InRegistry(b) THEN [I[b] EXCEPT !.isPaused = TRUE] ELSE I[b]]

pause(I, a) == pauseIn(registry, I, a)

\* lines 842-870: resume() on the instance itself
resumeSelf(s, i) ==
    Then(calculateDimensions(s, i), LAMBDA m :
    Then(IF m.shouldAnimate /\ ~m.contentSetup THEN setupContent(m, i) ELSE m, LAMBDA b :
    IF ~b.shouldAnimate THEN stop(b)
    ELSE IF b.isPaused
         THEN Then([b EXCEPT !.isPaused = FALSE, !.lastTime = now], LAMBDA r :
              IF ~r.isAnimating
              THEN Then([r EXCEPT !.isAnimating = TRUE], LAMBDA q : startAnimation(q, i))
              ELSE r)
         ELSE b))

\* the peer part of resume() without its shouldAnimate test
resumePeerUnchecked(s, i) ==
    IF ~s.isPaused THEN s
    ELSE Then(calculateDimensions(s, i), LAMBDA m :
         Then([m EXCEPT !.isPaused = FALSE, !.lastTime = now], LAMBDA r :
         IF ~r.isAnimating
         THEN Then([r EXCEPT !.isAnimating = TRUE], LAMBDA q : startAnimation(q, i))
         ELSE r))

\* lines 873-885: what resume() on another instance does to a registered peer
resumePeer(s, i) ==
    IF ~s.isPaused THEN s
    ELSE Then(calculateDimensions(s, i), LAMBDA m :
         IF m.shouldAnimate
         THEN Then([m EXCEPT !.isPaused = FALSE, !.lastTime = now], LAMBDA r :
              IF ~r.isAnimating
              THEN Then([r EXCEPT !.isAnimating = TRUE], LAMBDA q : startAnimation(q, i))
              ELSE r)
         ELSE m)

resume(I, a) ==
    Then(resumeSelf(I[a], a), LAMBDA self :
    [b \in Inst |->
        IF b = a THEN self
        ELSE IF self.shouldAnimate /\ options[a].syncPause /\ InRegistry(b)
             THEN resumePeer(I[b], b)
             ELSE I[b]])

---------------------------------------------------------------------------
(* Interaction bindings: the first part of bindEvents().  A listener is    *)
(* the pair of functions the code attaches together (mouseenter and        *)
(* mouseleave, or click on the container and click on the document); ref   *)
(* is the identity of the function objects, 0 standing for undefined, and  *)
(* hoverRef and clickRef are the ones the instance's fields hold.          *)

DesktopWidth == 1024

Listener(kind, ref) == [kind |-> kind, ref |-> ref]

\* a function object created now is none of the attached ones
FreshRef(attached) ==
    LET free == {n \in 1 .. Cardinality(attached) + 1 : \A l \in attached : l.ref # n}
    IN CHOOSE n \in free : \A m \in free : n <= m

\* setupAdaptivePause without the removeEventListener calls
setupAdaptivePauseKeeping(s, innerWidth) ==
    LET f == FreshRef(s.attached)
    IN IF innerWidth >= DesktopWidth
       THEN [s EXCEPT !.hoverRef = f, !.attached = @ \cup {Listener("hover", f)}]
       ELSE [s EXCEPT !.clickRef = f, !.attached = @ \cup {Listener("click", f)}]

\* lines 944-982, innerWidth being window.innerWidth as the function runs
setupAdaptivePause(s, innerWidth) ==
    LET removed == s.attached \ {Listener("hover", s.hoverRef), Listener("click", s.clickRef)}
        f == FreshRef(removed)
    IN IF innerWidth >= DesktopWidth
       THEN [s EXCEPT !.hoverRef = f, !.attached = removed \cup {Listener("hover", f)}]
       ELSE [s EXCEPT !.clickRef = f, !.attached = removed \cup {Listener("click", f)}]

\* lines 984-1024
interactionBindings(s, i) ==
    IF options[i].adaptivePause
    THEN [setupAdaptivePause(s, win.innerWidth) EXCEPT !.resizeListener = TRUE]
    ELSE Then(IF options[i].pauseOnHover
              THEN [s EXCEPT !.hoverRef = FreshRef(s.attached),
                             !.attached = @ \cup {Listener("hover", FreshRef(s.attached))}]
              ELSE s, LAMBDA h :
         IF options[i].pauseOnClick
         THEN [h EXCEPT !.clickRef = FreshRef(h.attached),
                        !.attached = @ \cup {Listener("click", FreshRef(h.attached))}]
         ELSE h)

\* lines 1253-1257 of destroy()
removeInteraction(s) ==
    [s EXCEPT !.attached = @ \ {Listener("hover", s.hoverRef), Listener("click", s.clickRef)},
              !.resizeListener = FALSE]

Listeners(s, kind) == Cardinality({l \in s.attached : l.kind = kind})

\* lines 963-971: _clickToggle
clickToggle(I, c) == IF I[c].isPaused THEN resume(I, c) ELSE pause(I, c)

\* lines 973-978: _documentClick of instance b, for a click outside its container
documentClick(I, b) == IF I[b].isPaused THEN resume(I, b) ELSE I

\* the n listeners of one kind attached for instance c run one after another
RECURSIVE Run(_, _, _, _)
Run(n, I, c, handler) ==
    IF n = 0 THEN I
    ELSE Then(CASE handler = "hoverPause" -> pause(I, c)
                [] handler = "hoverResume" -> resume(I, c)
                [] handler = "clickToggle" -> clickToggle(I, c)
                [] handler = "documentClick" -> documentClick(I, c),
              LAMBDA J : Run(n - 1, J, c, handler))

\* the pointer enters container c: every _hoverPause attached to it runs
mouseEnter(I, c) == Run(Listeners(I[c], "hover"), I, c, "hoverPause")

\* the pointer leaves container c: every _hoverResume attached to it runs
mouseLeave(I, c) == Run(Listeners(I[c], "hover"), I, c, "hoverResume")

\* the document's click listeners, in the order of binding, for a click
\* that is in none of the containers of from .. NumInst but c's
RECURSIVE DocumentClicks(_, _, _)
DocumentClicks(I, from, c) ==
    IF from > NumInst THEN I
    ELSE IF from = c THEN DocumentClicks(I, from + 1, c)
    ELSE Then(Run(Listeners(I[from], "click"), I, from, "documentClick"),
              LAMBDA K : DocumentClicks(K, from + 1, c))

\* a click in container c: its _clickToggle listeners stop the propagation;
\* with none attached the click reaches the document
click(I, c) ==
    IF Listeners(I[c], "click") > 0
    THEN Run(Listeners(I[c], "click"), I, c, "clickToggle")
    ELSE DocumentClicks(I, 1, c)

\* a click in no container
clickOutside(I) == DocumentClicks(I, 1, 0)

\* lines 985-990: the 'resize' listeners of the adaptive instances
resizeHandlers(I, innerWidth) ==
    [b \in Inst |-> IF I[b].resizeListener THEN setupAdaptivePause(I[b], innerWidth) ELSE I[b]]

---------------------------------------------------------------------------
(* Dynamic content *)

\* line 1205-1207: the new element goes before the first clone, else at the end
InsertItem(children, id) ==
    LET idx == {k \in 1 .. Len(children) : IsClone(children[k])}
    IN IF idx = {} THEN Append(children, Elem(id, "orig"))
       ELSE LET f == CHOOSE k \in idx : \A j \in idx : k <= j
            IN SubSeq(children, 1, f - 1) \o <<Elem(id, "orig")>>
                   \o SubSeq(children, f, Len(children))

addItem(s, i, id) ==
    Then([s EXCEPT !.children = InsertItem(s.children, id)], LAMBDA d : refresh(d, i))

\* line 1218-1224: the last non-clone child is removed
RemoveLastOriginal(children) ==
    LET idx == {k \in 1 .. Len(children) : ~IsClone(children[k])}
        l == CHOOSE k \in idx : \A j \in idx : k >= j
    IN SubSeq(children, 1, l - 1) \o SubSeq(children, l + 1, Len(children))

removeItem(s, i) ==
    IF Originals(s.children) = <<>> THEN s
    ELSE Then([s EXCEPT !.children = RemoveLastOriginal(s.children)], LAMBDA d : refresh(d, i))

---------------------------------------------------------------------------
(* 4.4 Resize-Loop Guard: the ResizeObserver callback of bindEvents() and  *)
(* the debounced refresh it arms.  One container is observed, so entries   *)
(* holds one entry, whose contentRect is the container's rect.             *)
(* For observers, passed tells whether the latest notification passed the  *)
(* rate limit, accepted counts the notifications that passed it since the  *)
(* debounced refresh last ran, armedAt is the time of the notification     *)
(* that armed the pending debounce, coalesced tells whether that           *)
(* notification replaced a pending timer, and runLog records armedAt for   *)
(* every debounced refresh that ran.                                       *)

RateLimitedOff(s) == FALSE

\* line 1061-1062: timeSinceLastResize < 50
RateLimited(s) == now - s.lastResizeTimestamp < RateLimitMs

resizeObserved(s, i) ==
    LET s1 == [s EXCEPT !.resizeObserverCallCount = @ + 1, !.passed = FALSE]
        s2 == [s1 EXCEPT !.lastResizeTimestamp = now, !.passed = TRUE,
                         !.accepted = @ + 1]
        currentWindowSize == IF options[i].vertical THEN win.innerHeight ELSE win.innerWidth
        windowSizeChanged == currentWindowSize # s.lastWindowWidth
        currentSize == IF options[i].vertical THEN rect[i].height ELSE rect[i].width
        sizeDiff == Abs(currentSize - s.lastContainerRectWidth)
    IN IF s1.isRefreshing \/ s1.isInitializing THEN s1
       ELSE IF RateLimited(s1) THEN s1
       ELSE IF s2.resizeObserverCallCount > MaxCalls THEN [s2 EXCEPT !.roConnected = FALSE]
       ELSE IF s2.lastContainerRectWidth = 0
            THEN [s2 EXCEPT !.lastContainerRectWidth = currentSize]
       ELSE IF sizeDiff < MinDiff THEN s2
       ELSE IF ~windowSizeChanged /\ sizeDiff < RealDiff THEN s2
       ELSE [s2 EXCEPT !.lastContainerRectWidth = currentSize,
                       !.lastWindowWidth = currentWindowSize,
                       !.refreshTimeoutAt = now + DebounceMs,
                       !.armedAt = now,
                       !.coalesced = s.refreshTimeoutAt # None]

\* the debounced callback without the reset of the count
debouncedRefreshKeepingCount(s, i) ==
    Then([s EXCEPT !.accepted = 0,
                   !.refreshTimeoutAt = None,
                   !.runLog = Append(@, s.armedAt)],
         LAMBDA c : refresh(c, i))

\* lines 1146-1149: the debounced callback
debouncedRefresh(s, i) ==
    Then([s EXCEPT !.resizeObserverCallCount = 0,
                   !.accepted = 0,
                   !.refreshTimeoutAt = None,
                   !.runLog = Append(@, s.armedAt)],
         LAMBDA c : refresh(c, i))

---------------------------------------------------------------------------
(* Construction *)

\* lines 112-233: the fields before init(); the strip holds the first n items
NewInstance(n) ==
    [items |-> [k \in 1 .. n |-> k],
     children |-> [k \in 1 .. n |-> Elem(k, "orig")],
     isAnimating |-> FALSE,
     isPaused |-> FALSE,
     animationId |-> "null",
     rafPending |-> 0,
     currentTranslate |-> 0,
     contentWidth |-> 0,
     contentSize |-> 0,
     containerWidth |-> 0,
     containerHeight |-> 0,
     containerSize |-> 0,
     lastTime |-> 0,
     shouldAnimate |-> FALSE,
     forceAnimationEnabled |-> FALSE,
     contentSetup |-> FALSE,
     loopWidth |-> 0,
     prependWidth |-> 0,
     contentStyle |-> None,
     isRefreshing |-> FALSE,
     isInitializing |-> FALSE,
     refreshGuardAt |-> None,
     resizeObserverCallCount |-> 0,
     lastResizeTimestamp |-> 0,
     lastContainerRectWidth |-> 0,
     lastWindowWidth |-> win.innerWidth,
     refreshTimeoutAt |-> None,
     roConnected |-> TRUE,
     roReported |-> [width |-> 0, height |-> 0],
     armedAt |-> None,
     passed |-> FALSE,
     accepted |-> 0,
     coalesced |-> FALSE,
     runLog |-> <<>>,
     cycles |-> 0,
     travelled |-> 0,
     orientationAt |-> None,
     hoverRef |-> 0,
     clickRef |-> 0,
     attached |-> {},
     resizeListener |-> FALSE,
     live |-> "live"]

\* lines 235-236: init(), then bindEvents(), which changes no field of the
\* instance while the page has no preference for reduced motion
Constructed(i, n) == Then(NewInstance(n), LAMBDA s : init(s, i))

\* a container no instance was built over: only its strip exists
Unbound(n) == [NewInstance(n) EXCEPT !.live = "none", !.roConnected = FALSE]

\* this.options, lines 144-162, with the defaults of the options not given
DefaultOptions ==
    [speed |-> 50, gap |-> 0, reverse |-> FALSE,
     initialShift |-> [kind |-> "false", px |-> 0],
     pauseOnInvisible |-> FALSE, syncPause |-> FALSE, repeatCount |-> 3,
     forceAnimation |-> FALSE, forceAnimationWidth |-> 2, vertical |-> FALSE,
     pauseOnHover |-> FALSE, pauseOnClick |-> FALSE, adaptivePause |-> FALSE]

---------------------------------------------------------------------------
(* Bindings.  A world W is what a constructor or a broadcast call works    *)
(* on as it goes from one container to the next: the instances I, the      *)
(* registry reg, the page pg, the instances refs built so far, the number  *)
(* reached of instances whose method was called, and thrown, the error     *)
(* that ended it ("none" while it runs on).                                *)

\* an instance of a binding: the container it was built over, and whether the
\* constructor ran to its end or returned at the double-initialization guard
Ref(c, full) == [c |-> c, full |-> full]

World ==
    [I |-> inst, reg |-> registry, pg |-> page, refs |-> <<>>, reached |-> 0, thrown |-> "none"]

Without(seq, c) == SelectSeq(seq, LAMBDA x : x # c)

\* lines 1154-1192: the listeners are attached, and an active preference for
\* reduced motion pauses the instance
bindEvents(W, c) ==
    Then([W EXCEPT !.I[c] = interactionBindings(@, c),
                   !.pg.listeners = Append(@, c),
                   !.pg.motionListeners = Append(@, c)], LAMBDA b :
    IF b.pg.reducedMotion THEN [b EXCEPT !.I = pauseIn(b.reg, b.I, c)] ELSE b)

\* lines 112-237: new CometMarqueeInstance(container)
CometMarqueeInstance(W, c) ==
    IF ~W.pg.content[c]
    THEN [W EXCEPT !.thrown = "TypeError"]                \* line 127, content is null
    ELSE IF W.pg.isInit[c]
    THEN [W EXCEPT !.refs = Append(@, Ref(c, FALSE))]     \* lines 132-135
    ELSE Then([W EXCEPT !.reg = Append(@, c),
                        !.pg.isInit[c] = TRUE,
                        !.I[c] = Constructed(c, Len(W.I[c].children))], LAMBDA b :
         Then(bindEvents(b, c), LAMBDA e :
         [e EXCEPT !.refs = Append(@, Ref(c, TRUE))]))

\* line 55: containers.map stops at the first constructor that throws
RECURSIVE MapContainers(_, _)
MapContainers(W, containers) ==
    IF containers = <<>> \/ W.thrown # "none" THEN W
    ELSE Then(CometMarqueeInstance(W, Head(containers)), LAMBDA R :
         MapContainers(R, Tail(containers)))

\* lines 39-57: new CometMarquee(selector); a locator is what the selector
\* resolves to, valid being false for a value of none of the accepted kinds
CometMarquee(W, loc) ==
    IF ~loc.valid THEN [W EXCEPT !.thrown = "Error"]
    ELSE MapContainers(W, loc.containers)

\* destroy() leaving the registry as it is
destroyKeepingEntry(W, c) ==
    [W EXCEPT !.I[c] = [removeInteraction(stop(W.I[c])) EXCEPT !.refreshTimeoutAt = None,
                                                               !.roConnected = FALSE,
                                                               !.live = "destroyed"],
              !.pg.listeners = Without(@, c)]

\* lines 1234-1294: destroy() of a fully constructed instance
destroy(W, c) ==
    [W EXCEPT !.I[c] = [removeInteraction(stop(W.I[c])) EXCEPT !.refreshTimeoutAt = None,
                                                               !.roConnected = FALSE,
                                                               !.live = "destroyed"],
              !.reg = Without(@, c),
              !.pg.listeners = Without(@, c)]

\* an instance that returned at line 134 has no options: every read of
\* this.options throws (dispatchEvent line 256, getTotalSize line 270,
\* calculateDimensions line 295, refresh line 911)
StubThrows(op, s) ==
    CASE op = "stop" -> FALSE                              \* wasAnimating is undefined
      [] op = "removeItem" -> Originals(s.children) # <<>>
      [] OTHER -> TRUE

\* the ids no element of the strip carries yet
FreshIds(s) ==
    {id \in ItemIds : ~Attached(s.children, id) /\ \A k \in 1 .. Len(s.items) : s.items[k] # id}

\* the element that the html handed to addItem creates
NewItem(s) == CHOOSE x \in FreshIds(s) : \A y \in FreshIds(s) : x <= y

\* one instance method, called by the forEach of lines 62-99
Method(W, ref, op) ==
    IF ~ref.full
    THEN IF StubThrows(op, W.I[ref.c]) THEN [W EXCEPT !.thrown = "TypeError"] ELSE W
    ELSE LET c == ref.c
             s == W.I[c]
         IN CASE op = "start" -> [W EXCEPT !.I[c] = startAnimation(s, c)]
              [] op = "stop" -> [W EXCEPT !.I[c] = stop(s)]
              [] op = "pause" -> [W EXCEPT !.I = pauseIn(W.reg, W.I, c)]
              [] op = "resume" -> [W EXCEPT !.I = resume(W.I, c)]
              [] op = "refresh" -> [W EXCEPT !.I[c] = refresh(s, c)]
              [] op = "addItem" -> [W EXCEPT !.I[c] = addItem(s, c, NewItem(s))]
              [] op = "removeItem" -> [W EXCEPT !.I[c] = removeItem(s, c)]
              [] op = "destroy" -> destroy(W, c)

RECURSIVE ForEach(_, _, _)
ForEach(W, refs, op) ==
    IF refs = <<>> \/ W.thrown # "none" THEN W
    ELSE Then(Method([W EXCEPT !.reached = @ + 1], Head(refs), op), LAMBDA R :
         ForEach(R, Tail(refs), op))

\* a listener that pauses and never resumes
motionChangeHandlerOneWay(W, c) ==
    IF W.pg.reducedMotion THEN [W EXCEPT !.I = pauseIn(W.reg, W.I, c)]
    ELSE W

\* lines 1180-1188: the listener for a change of the reduced-motion preference
motionChangeHandler(W, c) ==
    IF W.pg.reducedMotion THEN [W EXCEPT !.I = pauseIn(W.reg, W.I, c)]
    ELSE [W EXCEPT !.I = resume(W.I, c)]

\* a listener that pauses a hidden document's instance whatever its options
visibilityHandlerAlwaysPausing(W, c) ==
    IF W.pg.visible THEN [W EXCEPT !.I = resume(W.I, c)]
    ELSE [W EXCEPT !.I = pauseIn(W.reg, W.I, c)]

\* lines 1169-1177: the listener for a change of document visibility
visibilityHandler(W, c) ==
    IF W.pg.visible THEN [W EXCEPT !.I = resume(W.I, c)]
    ELSE IF options[c].pauseOnInvisible THEN [W EXCEPT !.I = pauseIn(W.reg, W.I, c)]
    ELSE W

\* lines 1154-1160: the listener for a change of orientation arms a timer
orientationChangeHandler(W, c) == [W EXCEPT !.I[c].orientationAt = now + OrientationMs]

\* the host calls the listeners of an event in the order they were added
RECURSIVE Deliver(_, _, _)
Deliver(W, listeners, event) ==
    IF listeners = <<>> THEN W
    ELSE Then(CASE event = "motion" -> motionChangeHandler(W, Head(listeners))
                [] event = "visibility" -> visibilityHandler(W, Head(listeners))
                [] event = "orientation" -> orientationChangeHandler(W, Head(listeners)),
              LAMBDA R : Deliver(R, Tail(listeners), event))

---------------------------------------------------------------------------
(* Actions.  A public operation of CometMarquee on a binding of one        *)
(* container is the instance method (lines 62-99).                         *)

NoSnapshot == [step |-> 0, items |-> <<>>, loopWidth |-> 0, clones |-> 0, added |-> 0]

\* snapshot.step is 1 right after addItem and 2 after a removeItem that
\* immediately followed it
Op(name, i) ==
    /\ last' = <<name, i, IF last[1] = name /\ last[2] = i THEN 2 ELSE 1>>
    /\ snapshot' = IF name = "removeItem" /\ last[1] = "addItem" /\ last[2] = i
                   THEN [snapshot EXCEPT !.step = 2]
                   ELSE NoSnapshot

Env == <<options, registry, rect, win, itemSize, page, api>>

Timers(s) == {s.refreshGuardAt, s.refreshTimeoutAt, s.orientationAt} \ {None}

Start(i) ==
    /\ inst' = [inst EXCEPT ![i] = startAnimation(inst[i], i)]
    /\ Op("start", i)
    /\ UNCHANGED <<Env, now>>

Stop(i) ==
    /\ inst' = [inst EXCEPT ![i] = stop(inst[i])]
    /\ Op("stop", i)
    /\ UNCHANGED <<Env, now>>

Pause(a) ==
    /\ inst' = pause(inst, a)
    /\ Op("pause", a)
    /\ UNCHANGED <<Env, now>>

Resume(a) ==
    /\ inst' = resume(inst, a)
    /\ Op("resume", a)
    /\ UNCHANGED <<Env, now>>

Refresh(i) ==
    /\ inst' = [inst EXCEPT ![i] = refresh(inst[i], i)]
    /\ Op("refresh", i)
    /\ UNCHANGED <<Env, now>>

AddItem(i) ==
    /\ FreshIds(inst[i]) # {}
    /\ LET id == CHOOSE x \in FreshIds(inst[i]) : \A y \in FreshIds(inst[i]) : x <= y
       IN /\ inst' = [inst EXCEPT ![i] = addItem(inst[i], i, id)]
          /\ snapshot' = [step |-> 1, items |-> inst[i].items,
                          loopWidth |-> inst[i].loopWidth,
                          clones |-> CloneCount(inst[i]), added |-> id]
    /\ last' = <<"addItem", i, IF last[1] = "addItem" /\ last[2] = i THEN 2 ELSE 1>>
    /\ UNCHANGED <<Env, now>>

RemoveItem(i) ==
    /\ inst' = [inst EXCEPT ![i] = removeItem(inst[i], i)]
    /\ Op("removeItem", i)
    /\ UNCHANGED <<Env, now>>

\* the host runs a queued animation-frame callback
Frame(i) ==
    /\ inst[i].rafPending > 0
    /\ inst' = [inst EXCEPT ![i] = frame(inst[i], i)]
    /\ Op("frame", i)
    /\ UNCHANGED <<Env, now>>

\* time passes, never beyond a timer that is due
Tick(d, horizon) ==
    /\ now + d <= horizon
    /\ \A i \in Inst : \A t \in Timers(inst[i]) : now + d <= t
    /\ now' = now + d
    /\ UNCHANGED <<inst, Env, last, snapshot>>

\* lines 929-934: the timer that clears the refresh guard
RefreshGuardTimer(i) ==
    /\ inst[i].refreshGuardAt # None
    /\ inst[i].refreshGuardAt <= now
    /\ inst' = [inst EXCEPT ![i].isRefreshing = FALSE, ![i].refreshGuardAt = None]
    /\ UNCHANGED <<Env, now, last, snapshot>>

\* the host delivers the notification that is due: the observed box is not
\* the one it reported last (nothing was reported when observe() was called)
SizeObserved(i) ==
    /\ inst[i].roConnected
    /\ rect[i] # inst[i].roReported
    /\ inst' = [inst EXCEPT ![i] = [resizeObserved(inst[i], i) EXCEPT !.roReported = rect[i]]]
    /\ Op("resize-observed", i)
    /\ UNCHANGED <<Env, now>>

\* the host delivers a size-change notification, due or not
ResizeObserved(i, maxNotify) ==
    /\ inst[i].roConnected
    /\ inst[i].resizeObserverCallCount < maxNotify
    /\ inst' = [inst EXCEPT ![i] = resizeObserved(inst[i], i)]
    /\ Op("resize-observed", i)
    /\ UNCHANGED <<Env, now>>

DebouncedRefresh(i) ==
    /\ inst[i].refreshTimeoutAt # None
    /\ inst[i].refreshTimeoutAt <= now
    /\ inst' = [inst EXCEPT ![i] = debouncedRefresh(inst[i], i)]
    /\ Op("debounced-refresh", i)
    /\ UNCHANGED <<Env, now>>

\* new CometMarquee(locator): the binding is returned unless the constructor
\* threw; whatever the constructors did before the throw stays done
Construct(loc, maxBindings) ==
    /\ Cardinality(api.bindings) < maxBindings
    /\ \E W \in {CometMarquee(World, loc)} :
          /\ inst' = W.I
          /\ registry' = W.reg
          /\ page' = W.pg
          /\ api' = [bindings |-> IF W.thrown = "none" THEN api.bindings \cup {W.refs}
                                  ELSE api.bindings,
                     op |-> "new",
                     reached |-> IF W.thrown = "none" THEN 0 ELSE Len(W.refs),
                     thrown |-> W.thrown]
    /\ last' = <<"new", 0, 1>>
    /\ UNCHANGED <<options, rect, win, itemSize, now, snapshot>>

\* lines 62-99: a public operation on binding b
Call(b, op) ==
    /\ b \in api.bindings
    /\ op = "addItem" => \A j \in 1 .. Len(b) : b[j].full => FreshIds(inst[b[j].c]) # {}
    /\ \E W \in {ForEach(World, b, op)} :
          /\ inst' = W.I
          /\ registry' = W.reg
          /\ page' = W.pg
          /\ api' = [api EXCEPT !.op = "call", !.reached = IF W.thrown = "none" THEN 0 ELSE W.reached,
                                !.thrown = W.thrown]
    /\ last' = <<"call", 0, 1>>
    /\ UNCHANGED <<options, rect, win, itemSize, now, snapshot>>

\* the user's preference for reduced motion changes
MotionChanged ==
    /\ \E W \in {Deliver([World EXCEPT !.pg.reducedMotion = ~page.reducedMotion],
                           page.motionListeners, "motion")} :
          /\ inst' = W.I
          /\ page' = W.pg
    /\ Op("motion", 0)
    /\ UNCHANGED <<options, registry, rect, win, itemSize, now, api>>

\* the document is hidden or shown
VisibilityChanged ==
    /\ \E W \in {Deliver([World EXCEPT !.pg.visible = ~page.visible],
                           page.listeners, "visibility")} :
          /\ inst' = W.I
          /\ page' = W.pg
    /\ Op("visibility", 0)
    /\ UNCHANGED <<options, registry, rect, win, itemSize, now, api>>

\* the device is turned
OrientationChanged ==
    /\ \A i \in Inst : inst[i].orientationAt = None
    /\ page.listeners # <<>>
    /\ inst' = Deliver(World, page.listeners, "orientation").I
    /\ Op("orientation", 0)
    /\ UNCHANGED <<Env, now>>

\* lines 1156-1159: the timer armed by the orientation listener
OrientationTimer(i) ==
    /\ inst[i].orientationAt # None
    /\ inst[i].orientationAt <= now
    /\ inst' = [inst EXCEPT ![i] = refresh([inst[i] EXCEPT !.orientationAt = None], i)]
    /\ Op("orientation-refresh", i)
    /\ UNCHANGED <<Env, now>>

\* layout changes made by the page, not by the instance
ContainerResized(i, w) ==
    /\ rect[i].width # w
    /\ rect' = [rect EXCEPT ![i].width = w]
    /\ Op("layout", i)
    /\ UNCHANGED <<inst, options, registry, win, itemSize, now, page, api>>

\* the user resizes the host's window: the 'resize' listeners run with the
\* new width
WindowResized(w) ==
    /\ win.innerWidth # w
    /\ win' = [win EXCEPT !.innerWidth = w]
    /\ inst' = resizeHandlers(inst, w)
    /\ Op("layout", 0)
    /\ UNCHANGED <<options, registry, rect, itemSize, now, page, api>>

MouseEnter(i) ==
    /\ inst' = mouseEnter(inst, i)
    /\ Op("mouseenter", i)
    /\ UNCHANGED <<Env, now>>

MouseLeave(i) ==
    /\ inst' = mouseLeave(inst, i)
    /\ Op("mouseleave", i)
    /\ UNCHANGED <<Env, now>>

Click(i) ==
    /\ inst' = click(inst, i)
    /\ Op("click", i)
    /\ UNCHANGED <<Env, now>>

ClickOutside ==
    /\ inst' = clickOutside(inst)
    /\ Op("click", 0)
    /\ UNCHANGED <<Env, now>>

ContentResized(i, sz) ==
    /\ itemSize[i] # [id \in ItemIds |-> sz]
    /\ itemSize' = [itemSize EXCEPT ![i] = [id \in ItemIds |-> sz]]
    /\ Op("layout", i)
    /\ UNCHANGED <<inst, options, registry, rect, win, now, page, api>>

---------------------------------------------------------------------------
(* The host at time 0, with every instance registered in binding order.    *)

InnerWidth == 8
InnerHeight == 6

\* the document and the bindings when every container has been bound, each by
\* a binding of its own, with no preference for reduced motion
BoundPage ==
    [content |-> [c \in Containers |-> c \in Inst],
     isInit |-> [c \in Containers |-> c \in Inst],
     reducedMotion |-> FALSE,
     visible |-> TRUE,
     listeners |-> [k \in 1 .. NumInst |-> k],
     motionListeners |-> [k \in 1 .. NumInst |-> k]]

BoundApi ==
    [bindings |-> {<<Ref(k, TRUE)>> : k \in Inst},
     op |-> "new",
     reached |-> 0,
     thrown |-> "none"]

InitHost ==
    /\ registry = [k \in 1 .. NumInst |-> k]
    /\ win = [innerWidth |-> InnerWidth, innerHeight |-> InnerHeight]
    /\ now = 0
    /\ last = <<"new", 0, 1>>
    /\ snapshot = NoSnapshot
    /\ page = BoundPage
    /\ api = BoundApi

Uniform(sizes) == {[id \in ItemIds |-> sz] : sz \in sizes}

---------------------------------------------------------------------------
(* Spec: the controller.  Instance 1 is the instance operated on, with and *)
(* without syncPause; the other instances are its registered peers.  Every *)
(* instance is bound over a strip of two items whose extent the page may   *)
(* change (content that loads, or is hidden).  The clock stands still:     *)
(* pause, resume, start and stop read it only to stamp lastTime.           *)

Widths == {4, 7}
ItemSizes == {0, 3}
PeerWidth == 4

SyncOptions == {[DefaultOptions EXCEPT !.syncPause = sy] : sy \in BOOLEAN}

Init ==
    /\ InitHost
    /\ options \in [Inst -> SyncOptions]
    /\ \A i \in Inst \ {1} : options[i] = DefaultOptions
    /\ rect \in [Inst -> [width : Widths, height : {InnerHeight}]]
    /\ \A i \in Inst \ {1} : rect[i].width = PeerWidth
    /\ itemSize \in [Inst -> Uniform(ItemSizes)]
    /\ inst = [i \in Inst |-> Constructed(i, 2)]

Next ==
    \/ Pause(1)
    \/ Resume(1)
    \/ Start(1)
    \/ \E i \in Inst : Stop(i)
    \/ \E i \in Inst, sz \in ItemSizes : ContentResized(i, sz)

Spec == Init /\ [][Next]_vars

---------------------------------------------------------------------------
(* SpecMeasure: one instance over a strip of three items, measured again   *)
(* and again (refresh, resume) while the page changes the container and    *)
(* the items; horizontal and vertical, with and without forceAnimation.    *)

MeasureWidths == {2, 3, 300}
MeasureHeights == {3}
MeasureSizes == {0, 1, 100}
MeasureGaps == {0, 1}

MeasureOptions ==
    {[DefaultOptions EXCEPT !.speed = 4, !.forceAnimation = fo, !.vertical = ve, !.gap = g] :
        fo \in BOOLEAN, ve \in BOOLEAN, g \in MeasureGaps}

Quiet(i) ==
    /\ options[i] = DefaultOptions
    /\ rect[i] = [width |-> InnerWidth, height |-> InnerHeight]
    /\ itemSize[i] = [id \in ItemIds |-> 1]

InitMeasure ==
    /\ InitHost
    /\ options \in [Inst -> MeasureOptions \cup {DefaultOptions}]
    /\ rect \in [Inst -> [width : MeasureWidths \cup {InnerWidth},
                          height : MeasureHeights \cup {InnerHeight}]]
    /\ itemSize \in [Inst -> Uniform(MeasureSizes)]
    /\ options[1] \in MeasureOptions
    /\ rect[1] \in [width : MeasureWidths, height : MeasureHeights]
    /\ \A i \in Inst \ {1} : Quiet(i)
    /\ inst = [i \in Inst |-> Constructed(i, 3)]

NextMeasure ==
    \/ Resume(1)
    \/ Refresh(1)
    \/ Frame(1)
    \/ RefreshGuardTimer(1)
    \/ \E w \in MeasureWidths : ContainerResized(1, w)
    \/ \E sz \in MeasureSizes : ContentResized(1, sz)
    \/ Tick(RefreshGuardMs, MaxTicks * RefreshGuardMs)

SpecMeasure == InitMeasure /\ [][NextMeasure]_vars

\* what the layout would measure now: the container along the axis, the items
ActualContainerSize(i) == IF options[i].vertical THEN rect[i].height ELSE rect[i].width
ActualContentSize(i) ==
    LET ids == Originals(inst[i].children)
    IN IF Len(ids) = 0 THEN 0
       ELSE SumSeq([k \in 1 .. Len(ids) |-> itemSize[i][ids[k]]])
                + options[i].gap * (Len(ids) - 1)

\* C1: the stored measurement of every instance satisfies: shouldAnimate is true
\* exactly when contentSize > 0 and (contentSize > containerSize + 1 or
\* forceAnimation is configured); forced is true exactly when forceAnimation is
\* configured, contentSize > 0 and contentSize <= containerSize + 1; and right
\* after resume() the stored sizes are those the layout has.
C1_Measurement ==
    \A i \in Inst :
        LET s == inst[i]
        IN /\ s.shouldAnimate <=>
                  (s.contentSize > 0
                     /\ (s.contentSize > s.containerSize + 1 \/ options[i].forceAnimation))
           /\ s.forceAnimationEnabled <=>
                  (options[i].forceAnimation /\ s.contentSize > 0
                     /\ s.contentSize <= s.containerSize + 1)
           /\ (last[1] = "resume" /\ last[2] = i) =>
                  (s.containerSize = ActualContainerSize(i)
                     /\ s.contentSize = ActualContentSize(i))

\* C1 witness: content exactly as large as the viewport (300 against 300),
\* measured by resume(), does not animate
C1_Witness ==
    /\ last[1] = "resume" /\ last[2] = 1
    /\ inst[1].contentSize = 300 /\ inst[1].containerSize = 300
    /\ ~inst[1].shouldAnimate

\* C1 witness (second case): zero-size content under forceAnimation
C1_WitnessZero ==
    /\ last[1] = "resume" /\ last[2] = 1
    /\ options[1].forceAnimation /\ inst[1].contentSize = 0 /\ ~inst[1].shouldAnimate

---------------------------------------------------------------------------
(* SpecStatic: a page whose layout never changes.  Instance 1 is bound     *)
(* over content that fits its container (or overflows a container of 4);   *)
(* its peers overflow theirs and pause and resume, with and without       *)
(* syncPause.  Instance 1 takes every public operation that leaves the     *)
(* content alone, frames, time and the refresh guard.                      *)

StaticWidths == {4, 6}
StaticSizes == {0, 3}

StaticOptions ==
    {[DefaultOptions EXCEPT !.speed = 4, !.syncPause = sy, !.reverse = re] :
        sy \in BOOLEAN, re \in BOOLEAN}

InitStatic ==
    /\ InitHost
    /\ options \in [Inst -> StaticOptions]
    /\ \A i \in Inst \ {1} : ~options[i].reverse
    /\ rect \in [Inst -> [width : StaticWidths, height : {InnerHeight}]]
    /\ \A i \in Inst \ {1} : rect[i].width = PeerWidth
    /\ itemSize \in [Inst -> Uniform(StaticSizes)]
    /\ \A i \in Inst \ {1} : itemSize[i] = [id \in ItemIds |-> 3]
    /\ inst = [i \in Inst |-> Constructed(i, 2)]

NextStatic ==
    \/ Start(1)
    \/ Stop(1)
    \/ Refresh(1)
    \/ Frame(1)
    \/ RefreshGuardTimer(1)
    \/ \E i \in Inst : Pause(i)
    \/ \E i \in Inst : Resume(i)
    \/ Tick(RefreshGuardMs, MaxTicks * RefreshGuardMs)

SpecStatic == InitStatic /\ [][NextStatic]_vars

Running(i) == inst[i].isAnimating /\ ~inst[i].isPaused

Fits(i) == ActualContentSize(i) <= ActualContainerSize(i) /\ ~options[i].forceAnimation

\* C2: an instance whose content fits its viewport, forceAnimation off, on a
\* page whose sizes never change: in every reachable state shouldAnimate is
\* false, no clone is attached, the instance is not Running and translation is 0.
C2_FittingStaysStatic ==
    \A i \in Inst :
        Fits(i) => /\ ~inst[i].shouldAnimate
                   /\ CloneCount(inst[i]) = 0
                   /\ ~Running(i)
                   /\ inst[i].currentTranslate = 0

\* C2 witness: the fitting instance (content 6 in a container of 6) after its
\* own resume(), paused by then, time having passed, beside a running peer
C2_Witness ==
    /\ Fits(1) /\ inst[1].contentSize = 6 /\ inst[1].containerSize = 6
    /\ last[1] = "resume" /\ last[2] = 1
    /\ inst[1].isPaused
    /\ now > 0
    /\ \E b \in Inst \ {1} : Running(b) /\ options[b].syncPause

---------------------------------------------------------------------------
(* SpecFrames: the scenario of an instance running uninterrupted: a        *)
(* container of 300 over two items of 250 (contentSize 500), gap 0, speed  *)
(* 50, no initial shift, forward or reverse.  The host runs the frame      *)
(* callback after any of the gaps of FrameGaps: one second, or the long    *)
(* gap of a tab that was in the background.                                *)

FrameGaps == {1000, 25000}
FrameHorizon == MaxTicks * 25000

FrameOptions == {[DefaultOptions EXCEPT !.reverse = re] : re \in BOOLEAN}

InitFrames ==
    /\ InitHost
    /\ options \in [Inst -> FrameOptions \cup {DefaultOptions}]
    /\ rect \in [Inst -> {[width |-> 300, height |-> InnerHeight],
                          [width |-> InnerWidth, height |-> InnerHeight]}]
    /\ itemSize \in [Inst -> Uniform({1, 250})]
    /\ options[1] \in FrameOptions
    /\ rect[1].width = 300
    /\ itemSize[1] = [id \in ItemIds |-> 250]
    /\ \A i \in Inst \ {1} : Quiet(i)
    /\ inst = [i \in Inst |-> Constructed(i, 2)]

NextFrames ==
    \/ Frame(1)
    \/ \E d \in FrameGaps : Tick(d, FrameHorizon)

SpecFrames == InitFrames /\ [][NextFrames]_vars

\* C3 (as claimed): after every processed frame of an animating instance the
\* translation lies within one loop period of its wrap boundary: forward
\* -loopPeriod < translation <= 0, reverse
\* -prependWidth - loopPeriod <= translation < -prependWidth.
C3_WithinOnePeriod ==
    \A i \in Inst :
        (last[1] = "frame" /\ last[2] = i /\ inst[i].isAnimating) =>
            LET T == inst[i].currentTranslate
                loop == LoopSize(inst[i], i) * Scale
                pre == inst[i].prependWidth * Scale
            IN IF options[i].reverse
               THEN 0 - pre - loop <= T /\ T < 0 - pre
               ELSE 0 - loop < T /\ T <= 0

\* C4 (as claimed): while an instance runs uninterrupted, the number of cycle
\* notifications emitted equals the whole loop periods of distance travelled,
\* floor(distance / loopPeriod); forward, after a frame at 10 s, that is one
\* notification and translation 0.
C4_CyclesCountPeriods ==
    \A i \in Inst :
        inst[i].isAnimating =>
            /\ inst[i].cycles = inst[i].travelled \div (LoopSize(inst[i], i) * Scale)
            /\ (~options[i].reverse /\ now = 10000 /\ inst[i].lastTime = 10000) =>
                   (inst[i].cycles = 1 /\ inst[i].currentTranslate = 0)

---------------------------------------------------------------------------
(* Idempotence of refresh, under SpecMeasure.  last[3] = 2 says that the   *)
(* operation before this one was the same call on the same instance: only  *)
(* time and the guard's timer may have run in between, the layout has not  *)
(* changed.                                                                *)

\* C5 (as claimed): refresh() called twice in succession on an instance, with
\* no change to content or sizes in between, leaves the same loopPeriod and
\* the same number of attached clones after the second call as after the
\* first.
C5_RefreshTwice ==
    [][\A i \in Inst :
          (last' = <<"refresh", i, 2>>) =>
              /\ inst'[i].loopWidth = inst[i].loopWidth
              /\ CloneCount(inst'[i]) = CloneCount(inst[i])]_vars

---------------------------------------------------------------------------
(* SpecItems: the page adds and removes items of one instance, forward or  *)
(* reverse, paused or not, while time passes and the refresh guard's timer *)
(* runs.  The instance is bound over two items; the items' extents differ. *)

ItemWidths == {4, 7}
AddedSizes == {2, 3}

ItemsOptions == {[DefaultOptions EXCEPT !.reverse = re] : re \in BOOLEAN}

InitItems ==
    /\ InitHost
    /\ options \in [Inst -> ItemsOptions]
    /\ rect \in [Inst -> [width : ItemWidths \cup {InnerWidth}, height : {InnerHeight}]]
    /\ itemSize \in [Inst -> [ItemIds -> AddedSizes \cup {1}]]
    /\ rect[1].width \in ItemWidths
    /\ itemSize[1] \in [ItemIds -> AddedSizes]
    /\ \A i \in Inst \ {1} : Quiet(i)
    /\ inst = [i \in Inst |-> Constructed(i, 2)]

NextItems ==
    \/ AddItem(1)
    \/ RemoveItem(1)
    \/ Pause(1)
    \/ Resume(1)
    \/ RefreshGuardTimer(1)
    \/ Tick(RefreshGuardMs, MaxTicks * RefreshGuardMs)

SpecItems == InitItems /\ [][NextItems]_vars

\* C6 (as claimed): for every instance state and either direction, addItem(x)
\* immediately followed by removeItem() removes x itself and restores the
\* original item list, the original loopPeriod and the original clone count.
C6_AddRemoveRoundTrip ==
    \A i \in Inst :
        (snapshot.step = 2 /\ last[1] = "removeItem" /\ last[2] = i) =>
            /\ ~Attached(inst[i].children, snapshot.added)
            /\ inst[i].items = snapshot.items
            /\ inst[i].loopWidth = snapshot.loopWidth
            /\ CloneCount(inst[i]) = snapshot.clones

---------------------------------------------------------------------------
(* SpecGuard: the size-change notifications of one instance.  The page     *)
(* resizes the container; the host delivers notifications back to back     *)
(* (bursts) and after gaps of 50 ms and more, up to MaxNotify of them      *)
(* between two refreshes, with and without a resize in between; the        *)
(* debounce timer and the refresh guard's timer run when they are due.     *)

MaxNotify == 3
GuardWidths == {300, 312}
GuardGaps == {50, 300}
GuardHorizon == (MaxTicks + 1) * RefreshGuardMs

InitGuard ==
    /\ InitHost
    /\ options = [i \in Inst |-> DefaultOptions]
    /\ rect \in [Inst -> [width : GuardWidths \cup {InnerWidth}, height : {InnerHeight}]]
    /\ itemSize = [i \in Inst |-> [id \in ItemIds |-> 1]]
    /\ rect[1].width \in GuardWidths
    /\ \A i \in Inst \ {1} : Quiet(i)
    /\ inst = [i \in Inst |-> Constructed(i, 2)]

NextGuard ==
    \/ ResizeObserved(1, MaxNotify)
    \/ DebouncedRefresh(1)
    \/ RefreshGuardTimer(1)
    \/ \E w \in GuardWidths : ContainerResized(1, w)
    \/ \E d \in GuardGaps : Tick(d, GuardHorizon)

SpecGuard == InitGuard /\ [][NextGuard]_vars

\* a step that delivers a notification: the callback counts its calls first
Notifying(i) == inst'[i].resizeObserverCallCount = inst[i].resizeObserverCallCount + 1

\* C7: any two notifications that pass the rate-limit layer are at least 50 ms
\* apart; the debounce is armed only by a notification that passed, and every
\* debounced refresh that runs was armed at least 50 ms after the one that
\* armed the refresh before it: the notifications of a burst shorter than
\* 50 ms therefore result in at most one executed refresh.
C7_RateLimit ==
    [][\A i \in Inst :
          /\ (Notifying(i) /\ inst'[i].passed /\ inst[i].lastResizeTimestamp > 0) =>
                 now' - inst[i].lastResizeTimestamp >= RateLimitMs
          /\ (inst'[i].refreshTimeoutAt # None
              /\ inst'[i].refreshTimeoutAt # inst[i].refreshTimeoutAt) =>
                 (Notifying(i) /\ inst'[i].passed /\ inst'[i].armedAt = now')
          /\ (inst'[i].runLog # inst[i].runLog) =>
                 LET r == inst'[i].runLog
                 IN /\ r[Len(r)] = inst[i].armedAt
                    /\ inst[i].refreshTimeoutAt = inst[i].armedAt + DebounceMs
                    /\ Len(r) > 1 => r[Len(r)] - r[Len(r) - 1] >= RateLimitMs]_vars

\* a burst has resulted in one executed refresh: the debounced refresh has
\* just run, armed by the latest notification that passed, and the
\* notification delivered after that one, less than 50 ms later, did not pass
C7_Witness ==
    \E i \in Inst :
        /\ last[1] = "debounced-refresh" /\ last[2] = i
        /\ Len(inst[i].runLog) = 1
        /\ inst[i].runLog[1] = inst[i].lastResizeTimestamp
        /\ ~inst[i].passed

---------------------------------------------------------------------------
(* Pause and resume across instances, under Spec.  Every operation of Spec *)
(* records itself in last, so a step with last' = <<"pause", a, n>> is the *)
(* call pause() on instance a.                                             *)

\* C8: pause() on instance A sets A paused; if A has syncPause, every other
\* registered instance is marked paused and nothing else of it changes; if A
\* has not, no other instance changes at all.
C8_PauseBroadcast ==
    [][\A a \in Inst :
          (last'[1] = "pause" /\ last'[2] = a) =>
              /\ inst'[a].isPaused
              /\ \A b \in Inst \ {a} :
                     IF options[a].syncPause /\ InRegistry(b)
                     THEN inst'[b] = [inst[b] EXCEPT !.isPaused = TRUE]
                     ELSE inst'[b] = inst[b]]_vars

\* pause() on a syncPause instance has just marked a running peer paused
C8_Witness ==
    \E a \in Inst, b \in Inst :
        /\ a # b
        /\ last[1] = "pause" /\ last[2] = a /\ last[3] = 1
        /\ options[a].syncPause
        /\ inst[a].isPaused
        /\ inst[b].isPaused /\ inst[b].isAnimating /\ inst[b].shouldAnimate
        /\ CloneCount(inst[b]) > 0

\* pause() on an instance without syncPause has left a running peer running
C8_WitnessUnsynced ==
    \E a \in Inst, b \in Inst :
        /\ a # b
        /\ last[1] = "pause" /\ last[2] = a
        /\ ~options[a].syncPause
        /\ inst[a].isPaused
        /\ ~inst[b].isPaused /\ inst[b].isAnimating

\* C9 (as claimed): with syncPause on A, when resume() on A returns every
\* other registered instance B that was paused has been re-measured, and B is
\* running if and only if its own fresh measurement says it should animate,
\* whatever A's own measurement says.
C9_SyncedResume ==
    [][\A a \in Inst :
          (last'[1] = "resume" /\ last'[2] = a /\ options[a].syncPause) =>
              \A b \in Inst \ {a} :
                  (InRegistry(b) /\ inst[b].isPaused) =>
                      LET m == calculateDimensions(inst[b], b)
                      IN /\ inst'[b].contentSize = m.contentSize
                         /\ inst'[b].containerSize = m.containerSize
                         /\ inst'[b].shouldAnimate = m.shouldAnimate
                         /\ (inst'[b].isAnimating /\ ~inst'[b].isPaused) <=> m.shouldAnimate]_vars

\* C10 (as claimed): in every reachable state, an instance that is animating
\* (running or paused) wraps with a loop period strictly greater than 0.
C10_LoopPeriodPositive ==
    \A i \in Inst : inst[i].isAnimating => LoopSize(inst[i], i) > 0

---------------------------------------------------------------------------
(* SpecCover: one instance on a page whose sizes never change, in a window *)
(* of 100 by 100: normal and forced mode, forward and reverse, horizontal  *)
(* and vertical, over a container of 40 or 100 and two items of 1 or 30.   *)
(* The instance enters the animating state by bind, refresh, start and its *)
(* own resume.                                                             *)

CoverWindow == 100
CoverSizes == {40, 100}
CoverItems == {1, 30}

CoverOptions ==
    {[DefaultOptions EXCEPT !.forceAnimation = fo, !.reverse = re, !.vertical = ve] :
        fo \in BOOLEAN, re \in BOOLEAN, ve \in BOOLEAN}

InitCover ==
    /\ registry = [k \in 1 .. NumInst |-> k]
    /\ win = [innerWidth |-> CoverWindow, innerHeight |-> CoverWindow]
    /\ now = 0
    /\ last = <<"new", 0, 1>>
    /\ snapshot = NoSnapshot
    /\ page = BoundPage
    /\ api = BoundApi
    /\ options \in [Inst -> CoverOptions]
    /\ rect \in [Inst -> [width : CoverSizes \cup {InnerWidth},
                          height : CoverSizes \cup {InnerHeight}]]
    /\ itemSize \in [Inst -> Uniform(CoverItems)]
    /\ rect[1] \in [width : CoverSizes, height : CoverSizes]
    /\ \A i \in Inst \ {1} : Quiet(i)
    /\ inst = [i \in Inst |-> Constructed(i, 2)]

NextCover ==
    \/ Start(1)
    \/ Stop(1)
    \/ Pause(1)
    \/ Resume(1)
    \/ Refresh(1)
    \/ RefreshGuardTimer(1)
    \/ Tick(RefreshGuardMs, MaxTicks * RefreshGuardMs)

SpecCover == InitCover /\ [][NextCover]_vars

\* the extent of everything attached to the strip, along the scroll axis
LoopSetExtent(i) ==
    LET c == inst[i].children
    IN IF Len(c) = 0 THEN 0
       ELSE SumSeq([k \in 1 .. Len(c) |-> ElemExtent(i, c[k])])
                + options[i].gap * (Len(c) - 1)

\* C11 (as claimed): whenever an instance is animating, the total extent of
\* its attached Loop Set (originals, clones and gaps) along the scroll axis is
\* at least the viewport size, in normal and forced mode, in both directions
\* and on both axes.
C11_LoopSetCoversViewport ==
    \A i \in Inst :
        inst[i].isAnimating => LoopSetExtent(i) >= ActualContainerSize(i)

---------------------------------------------------------------------------
(* The per-frame callback, under SpecStatic: start, stop, refresh, frames, *)
(* and pause and resume of the instance and of its peers.                  *)

\* the operations that measure again and rebuild the Loop Set
Rebuilds == {"refresh", "resume", "addItem", "removeItem", "debounced-refresh"}

\* C17: in every reachable state a stopped instance has no per-frame callback
\* scheduled and an animating one (running or paused) has one; a frame runs
\* only for an animating instance, so the translation of a stopped instance
\* changes only through a rebuild; stop() from any state leaves the instance
\* stopped with the callback cancelled.
C17_FrameScheduling ==
    /\ [](\A i \in Inst :
             IF inst[i].isAnimating
             THEN inst[i].rafPending = 1 /\ inst[i].animationId = "pending"
             ELSE inst[i].rafPending = 0)
    /\ [][\A i \in Inst :
             /\ (last'[1] = "stop" /\ last'[2] = i) =>
                    (~inst'[i].isAnimating /\ inst'[i].rafPending = 0
                     /\ inst'[i].animationId = "null")
             /\ (last'[1] = "frame" /\ last'[2] = i /\ inst'[i] # inst[i]) =>
                    inst[i].isAnimating
             /\ (~inst[i].isAnimating
                 /\ inst'[i].currentTranslate # inst[i].currentTranslate) =>
                    last'[1] \in Rebuilds]_vars

\* stop() has just stopped an instance whose frames had been running
C17_Witness ==
    \E i \in Inst :
        /\ last[1] = "stop" /\ last[2] = i /\ last[3] = 1
        /\ ~inst[i].isAnimating
        /\ inst[i].rafPending = 0
        /\ inst[i].lastTime > 0
        /\ CloneCount(inst[i]) > 0

---------------------------------------------------------------------------
(* resume() of an instance, under Spec.                                    *)

\* C18 (as claimed): after resume() on an instance whose fresh measurement
\* says it should not animate, the instance is stopped (not animating, no
\* per-frame callback scheduled) and its paused flag is not left set.
C18_ResumeStopsOutright ==
    [][\A a \in Inst :
          (last'[1] = "resume" /\ last'[2] = a
           /\ ~calculateDimensions(inst[a], a).shouldAnimate) =>
              /\ ~inst'[a].isAnimating
              /\ inst'[a].rafPending = 0
              /\ ~inst'[a].isPaused]_vars

\* C19 (as claimed): for an instance whose Loop Set was never built, a
\* resume() at which the measurement says it should animate builds the Loop
\* Set and resumes motion: when resume() returns the instance is running with
\* its clones attached, whether or not its paused flag was set before.
C19_ResumeBuildsAndRuns ==
    [][\A a \in Inst :
          (last'[1] = "resume" /\ last'[2] = a
           /\ ~inst[a].contentSetup /\ CloneCount(inst[a]) = 0
           /\ calculateDimensions(inst[a], a).shouldAnimate) =>
              /\ inst'[a].isAnimating /\ ~inst'[a].isPaused
              /\ inst'[a].rafPending = 1
              /\ CloneCount(inst'[a]) > 0]_vars

---------------------------------------------------------------------------
(* SpecLife: a page of containers, the last of which lacks a content       *)
(* surface, over which bindings are constructed and then operated through  *)
(* their public methods.  The clock stands still.                          *)

MaxBindings == 2
StripItems == 2
LifeSizes == {5}

LifeOptions == {[DefaultOptions EXCEPT !.syncPause = TRUE]}

Operations == {"start", "stop", "pause", "resume", "refresh", "addItem", "removeItem", "destroy"}

\* an argument of no accepted kind, and the selectors of the page: one that
\* matches nothing, one that matches the first container, one that matches
\* every container with a content surface and one that matches them all, in
\* document order as querySelectorAll returns them
Locators ==
    {[valid |-> FALSE, containers |-> <<>>]}
        \cup {[valid |-> TRUE, containers |-> [k \in 1 .. n |-> k]] : n \in {0, 1, NumInst, Bare}}

\* the page as loaded, before any binding: no container carries the class
LoadedPage(motions) ==
    [content : {[c \in Containers |-> c \in Inst]}, isInit : {[c \in Containers |-> FALSE]},
     reducedMotion : motions, visible : {TRUE},
     listeners : {<<>>}, motionListeners : {<<>>}]

InitLoaded ==
    /\ registry = <<>>
    /\ win = [innerWidth |-> InnerWidth, innerHeight |-> InnerHeight]
    /\ now = 0
    /\ last = <<"load", 0, 1>>
    /\ snapshot = NoSnapshot
    /\ api = [bindings |-> {}, op |-> "load", reached |-> 0, thrown |-> "none"]
    /\ rect = [i \in Inst |-> [width |-> InnerWidth, height |-> InnerHeight]]
    /\ inst = [i \in Inst |-> Unbound(StripItems)]

InitLife ==
    /\ InitLoaded
    /\ page \in LoadedPage({FALSE})
    /\ options \in {[i \in Inst |-> o] : o \in LifeOptions}
    /\ itemSize \in {[i \in Inst |-> [id \in ItemIds |-> sz]] : sz \in LifeSizes}

NextLife ==
    \/ \E loc \in Locators : Construct(loc, MaxBindings)
    \/ \E op \in Operations : \E b \in api.bindings : Call(b, op)

SpecLife == InitLife /\ [][NextLife]_vars

\* C12: a locator that resolves to no container makes the constructor fail,
\* so that no binding without instances is ever returned.
C12_NoEmptyBinding == \A b \in api.bindings : b # <<>>

\* C13: a constructor call that throws leaves the registry and every
\* instance as they were before the call.
C13_FailedConstructorLeavesNoTrace ==
    [][(api'.op = "new" /\ api'.thrown # "none")
           => (registry' = registry /\ inst' = inst)]_vars

\* C14: no public operation on a binding that was returned ends in an error.
C14_OperationsNeverThrow == api.op = "call" => api.thrown = "none"

Entries(c) == Cardinality({k \in 1 .. Len(registry) : registry[k] = c})

\* C15: the registry holds exactly the instances that were fully
\* constructed and not destroyed since, each once; and the registry changes
\* only in a step in which an instance is constructed or destroyed.
C15_RegistryHoldsTheLive ==
    /\ [](\A c \in Inst : Entries(c) = IF inst[c].live = "live" THEN 1 ELSE 0)
    /\ [][registry' # registry
             => \E c \in Inst : inst'[c].live # inst[c].live]_vars

\* a destroyed instance is gone from the registry and a live one, bound by
\* another binding, is its only entry, after a call on a binding
C15_Witness ==
    /\ api.op = "call"
    /\ api.thrown = "none"
    /\ \E c, d \in Inst :
           /\ inst[c].live = "destroyed"
           /\ inst[d].live = "live"
           /\ registry = <<d>>

---------------------------------------------------------------------------
(* SpecMotion: bindings are constructed on a page whose user may prefer    *)
(* reduced motion, the preference changes back and forth, and the          *)
(* instances are paused, resumed, stopped and destroyed in between while   *)
(* the page changes the size of the items.  The clock stands still; the    *)
(* host has MediaQueryList.addEventListener.                               *)

MotionSizes == {1, 5}

MotionOperations == {"pause", "resume", "stop", "destroy"}

MotionOptions == {[DefaultOptions EXCEPT !.syncPause = sp] : sp \in BOOLEAN}

InitMotion ==
    /\ InitLoaded
    /\ page \in LoadedPage(BOOLEAN)
    /\ options \in {[i \in Inst |-> o] : o \in MotionOptions}
    /\ itemSize \in {[i \in Inst |-> [id \in ItemIds |-> sz]] : sz \in MotionSizes}

NextMotion ==
    \/ \E loc \in Locators : Construct(loc, MaxBindings)
    \/ \E op \in MotionOperations : \E b \in api.bindings : Call(b, op)
    \/ MotionChanged
    \/ \E sz \in MotionSizes : ContentResized(1, sz)

SpecMotion == InitMotion /\ [][NextMotion]_vars

\* the instances whose listener for the preference is attached
Listening(c) == \E k \in 1 .. Len(page.motionListeners) : page.motionListeners[k] = c

\* C20: an instance bound while reduced motion is preferred is paused when
\* its construction ends; a change of the preference to active leaves every
\* listening instance paused, and a change to inactive has run resume() on
\* each: one that was paused and whose content now overflows is running and
\* not paused, one whose content fits is stopped.
C20_ReducedMotion ==
    /\ [][\A c \in Inst :
             (last'[1] = "new" /\ page.reducedMotion
                  /\ inst[c].live = "none" /\ inst'[c].live = "live")
                 => inst'[c].isPaused]_vars
    /\ [][\A c \in Inst :
             (last'[1] = "motion" /\ page'.reducedMotion /\ Listening(c))
                 => inst'[c].isPaused]_vars
    /\ [][\A c \in Inst :
             (last'[1] = "motion" /\ ~page'.reducedMotion /\ Listening(c))
                 => IF calculateDimensions(inst[c], c).shouldAnimate
                    THEN inst[c].isPaused => (~inst'[c].isPaused /\ inst'[c].isAnimating)
                    ELSE ~inst'[c].isAnimating]_vars

\* the preference was switched on and then off again, and a listening
\* instance, which the first change paused, is running
C20_Witness ==
    /\ last = <<"motion", 0, 2>>
    /\ ~page.reducedMotion
    /\ \E c \in Inst :
           /\ Listening(c)
           /\ inst[c].live = "live"
           /\ inst[c].isAnimating
           /\ ~inst[c].isPaused
           /\ inst[c].rafPending = 1

---------------------------------------------------------------------------
(* SpecDestroy: every container is bound by a binding of its own; the      *)
(* first instance is refreshed and destroyed while the device is turned,   *)
(* the preference for reduced motion and the visibility of the document    *)
(* change, and the timers armed on the way come due.                       *)

DestroyStep == 100
DestroyHorizon == MaxTicks * RefreshGuardMs
DestroySizes == {1, 5}

InitDestroy ==
    /\ InitHost
    /\ options = [i \in Inst |-> DefaultOptions]
    /\ rect = [i \in Inst |-> [width |-> InnerWidth, height |-> InnerHeight]]
    /\ itemSize \in [Inst -> Uniform(DestroySizes)]
    /\ \A i \in Inst \ {1} : Quiet(i)
    /\ inst = [i \in Inst |-> Constructed(i, StripItems)]

NextDestroy ==
    \/ Call(<<Ref(1, TRUE)>>, "destroy")
    \/ inst[1].live = "live" /\ Call(<<Ref(1, TRUE)>>, "refresh")
    \/ OrientationChanged
    \/ \E i \in Inst : OrientationTimer(i)
    \/ \E i \in Inst : RefreshGuardTimer(i)
    \/ MotionChanged
    \/ VisibilityChanged
    \/ Tick(DestroyStep, DestroyHorizon)

SpecDestroy == InitDestroy /\ [][NextDestroy]_vars

\* C16: once an instance is destroyed, and while no public method but
\* destroy() is called on it, it stays stopped with no frame callback
\* queued, and no timer and no event of the host changes anything of it.
C16_DestroyedStaysQuiet ==
    /\ [](\A c \in Inst :
             inst[c].live = "destroyed" => (~inst[c].isAnimating /\ inst[c].rafPending = 0))
    /\ [][\A c \in Inst : inst[c].live = "destroyed" => inst'[c] = inst[c]]_vars

\* C21: while reduced motion is preferred, an instance that is paused stays
\* paused through every event of the host and every timer (steps that are
\* not a public method call).
C21_PausedWhilePreferenceActive ==
    [][\A c \in Inst :
          (page.reducedMotion /\ page'.reducedMotion /\ last'[1] # "call"
               /\ inst[c].live = "live" /\ inst[c].isPaused)
              => inst'[c].isPaused]_vars

---------------------------------------------------------------------------
(* SpecVisible: every container is bound by a binding of its own; the      *)
(* document is hidden and shown while the first instance, configured with  *)
(* or without pauseOnInvisible and syncPause, is paused, resumed, started  *)
(* and stopped and the page changes the size of its items.  The clock      *)
(* stands still.                                                           *)

VisibleSizes == {1, 5}

VisibleOptions ==
    {[DefaultOptions EXCEPT !.pauseOnInvisible = po, !.syncPause = sp] : po, sp \in BOOLEAN}

InitVisible ==
    /\ InitHost
    /\ options \in [Inst -> VisibleOptions]
    /\ \A i \in Inst \ {1} : options[i] = DefaultOptions
    /\ rect = [i \in Inst |-> [width |-> InnerWidth, height |-> InnerHeight]]
    /\ itemSize \in [Inst -> Uniform(VisibleSizes)]
    /\ inst = [i \in Inst |-> Constructed(i, StripItems)]

NextVisible ==
    \/ VisibilityChanged
    \/ Pause(1)
    \/ Resume(1)
    \/ Start(1)
    \/ \E i \in Inst : Stop(i)
    \/ \E sz \in VisibleSizes : ContentResized(1, sz)

SpecVisible == InitVisible /\ [][NextVisible]_vars

\* the instances whose listener for document visibility is attached
Watching(c) == \E k \in 1 .. Len(page.listeners) : page.listeners[k] = c

\* a watching instance whose pause on a hidden document reaches its peers
SyncsHidden(d) == Watching(d) /\ options[d].pauseOnInvisible /\ options[d].syncPause

C22_WitnessUnconfigured ==
    /\ last[1] = "visibility"
    /\ ~page.visible
    /\ ~options[1].pauseOnInvisible
    /\ inst[1].isAnimating
    /\ ~inst[1].isPaused

---------------------------------------------------------------------------
(* SpecPause: one animating instance, forward or reverse, is paused,       *)
(* resumed and stopped while frames run and time passes.                   *)

PauseGap == 1000
PauseHorizon == (MaxTicks + 3) * PauseGap

InitPause == InitFrames

NextPause ==
    \/ Frame(1)
    \/ Pause(1)
    \/ Resume(1)
    \/ Stop(1)
    \/ Tick(PauseGap, PauseHorizon)

SpecPause == InitPause /\ [][NextPause]_vars

\* C23: a frame of a paused instance leaves the translation where it is and
\* sets the time reference to the frame's time; resume() of a paused
\* instance sets the time reference to the time of the resume; and a frame
\* of a running instance moves the strip by speed times the time since the
\* reference.  Hence the first frame after a resume moves it by speed times
\* the time since the resume.
C23_NoTimeDebt ==
    /\ [][(last'[1] = "frame" /\ now' = now /\ inst[1].isAnimating /\ inst[1].isPaused)
             => /\ inst'[1].currentTranslate = inst[1].currentTranslate
                /\ inst'[1].travelled = inst[1].travelled
                /\ inst'[1].lastTime = now]_vars
    /\ [][(last'[1] = "resume" /\ inst[1].isPaused /\ ~inst'[1].isPaused)
             => inst'[1].lastTime = now]_vars
    /\ [][(last'[1] = "frame" /\ now' = now /\ inst[1].isAnimating /\ ~inst[1].isPaused)
             => /\ inst'[1].travelled
                      = inst[1].travelled + options[1].speed * (now - inst[1].lastTime)
                /\ inst'[1].lastTime = now]_vars
    /\ [](inst[1].travelled <= options[1].speed * now)

\* a frame has moved the strip after a resume, by less than speed times the
\* time since the start: the time spent paused was not made up for
C23_Witness ==
    /\ last[1] = "frame"
    /\ inst[1].isAnimating
    /\ ~inst[1].isPaused
    /\ inst[1].lastTime = now
    /\ inst[1].travelled > 0
    /\ inst[1].travelled < options[1].speed * now

\* C24: start() on a stopped instance decides from a fresh measurement: the
\* instance is animating afterwards exactly if its content, as it is now,
\* overflows its container as it is now.
C24_StartMeasuresAfresh ==
    [][\A i \in Inst :
          (last'[1] = "start" /\ last'[2] = i /\ ~inst[i].isAnimating)
              => (inst'[i].isAnimating <=> calculateDimensions(inst[i], i).shouldAnimate)]_vars

---------------------------------------------------------------------------
(* The layers of the size-change callback, under SpecGuard.  The callback  *)
(* is the only operation that records "resize-observed" in last; the clock *)
(* and the refresh guard's timer leave last alone and are told apart by    *)
(* the time and by the guard's deadline.                                   *)

\* a step in which the size-change callback of instance i ran
Notified(i) ==
    /\ last'[1] = "resize-observed" /\ last'[2] = i
    /\ now' = now
    /\ inst'[i].refreshGuardAt = inst[i].refreshGuardAt
    /\ inst'[i] # inst[i]

\* C25: a notification that a guard layer rejected (it armed no timer, the
\* observer stays connected, a size had been recorded before) changes nothing
\* of the instance: no animation state, no timer, and not the count of calls
\* that the runaway ceiling is compared with.
C25_RejectedIsNoOp ==
    [][\A i \in Inst :
          (Notified(i)
           /\ inst'[i].refreshTimeoutAt = inst[i].refreshTimeoutAt
           /\ inst'[i].roConnected
           /\ inst[i].lastContainerRectWidth # 0)
              => /\ inst'[i].resizeObserverCallCount = inst[i].resizeObserverCallCount
                 /\ inst'[i].isAnimating = inst[i].isAnimating
                 /\ inst'[i].isPaused = inst[i].isPaused
                 /\ inst'[i].currentTranslate = inst[i].currentTranslate]_vars

---------------------------------------------------------------------------
(* SpecCeiling: one instance whose host keeps notifying, within an instant *)
(* and after the debounce has run, until the count of calls has gone past  *)
(* the ceiling.                                                            *)

CeilingNotify == MaxCalls + 2
CeilingGaps == {DebounceMs, RefreshGuardMs}
CeilingHorizon == (MaxTicks + 2) * RefreshGuardMs

InitCeiling ==
    /\ InitGuard
    /\ rect[1].width = 300

NextCeiling ==
    \/ ResizeObserved(1, CeilingNotify)
    \/ DebouncedRefresh(1)
    \/ RefreshGuardTimer(1)
    \/ \E w \in GuardWidths : ContainerResized(1, w)
    \/ \E d \in CeilingGaps : Tick(d, CeilingHorizon)

SpecCeiling == InitCeiling /\ [][NextCeiling]_vars

\* C26: the observer is disconnected exactly by a notification with which more
\* than 100 notifications have been accepted since the debounced refresh last
\* ran; a disconnected observer stays disconnected, and what was built stays.
C26_DisconnectedAtCeiling ==
    [][\A i \in Inst :
          /\ (inst[i].roConnected /\ ~inst'[i].roConnected) => inst'[i].accepted > MaxCalls
          /\ (Notified(i) /\ inst'[i].accepted > MaxCalls) => ~inst'[i].roConnected
          /\ ~inst[i].roConnected =>
                 /\ ~inst'[i].roConnected
                 /\ inst'[i].children = inst[i].children]_vars

---------------------------------------------------------------------------
(* SpecNoise: the notifications of one instance whose container changes by *)
(* 7 units, with and without a change of the window's width.               *)

NoiseWidths == {300, 307}
NoiseWindows == {InnerWidth, InnerWidth + 1}

InitNoise ==
    /\ InitGuard
    /\ rect[1].width = 300

NextNoise ==
    \/ ResizeObserved(1, MaxNotify)
    \/ DebouncedRefresh(1)
    \/ RefreshGuardTimer(1)
    \/ \E w \in NoiseWidths : ContainerResized(1, w)
    \/ \E w \in NoiseWindows : WindowResized(w)
    \/ \E d \in GuardGaps : Tick(d, GuardHorizon)

SpecNoise == InitNoise /\ [][NextNoise]_vars

\* C27: a notification that passed the in-progress, rate-limit and ceiling
\* layers, a size having been recorded before, arms the debounced refresh
\* exactly if the window's extent differs from the one last recorded or the
\* container's size differs from the recorded one by at least 5 units.
C27_RealOrNoise ==
    [][\A i \in Inst :
          (Notified(i) /\ inst'[i].passed /\ inst'[i].roConnected
           /\ inst[i].lastContainerRectWidth # 0)
              => ((inst'[i].refreshTimeoutAt = now + DebounceMs /\ inst'[i].armedAt = now)
                  <=> \/ (IF options[i].vertical THEN win.innerHeight ELSE win.innerWidth)
                             # inst[i].lastWindowWidth
                      \/ Abs((IF options[i].vertical THEN rect[i].height ELSE rect[i].width)
                                 - inst[i].lastContainerRectWidth) >= MinDiff)]_vars

---------------------------------------------------------------------------
(* The debounce of the size-change callback, under SpecGuard.              *)

\* a step in which a notification armed the debounce
Arming(i) ==
    /\ Notified(i) /\ inst'[i].passed
    /\ inst'[i].armedAt = now /\ inst'[i].refreshTimeoutAt # None

\* C28: a notification that arms the debounce leaves one timer pending, due
\* 300 ms later, whatever was pending before; the debounced refresh runs only
\* for the notification that armed last, 300 ms or more after it; the
\* notifications coalesced into two refreshes that ran one after the other
\* are 300 ms or more apart, so a burst ends in one refresh; the count of
\* calls is 0 when the debounced refresh has run; and a pending timer goes
\* away only by running.
C28_Debounce ==
    [][\A i \in Inst :
          /\ Arming(i) =>
                 /\ inst'[i].refreshTimeoutAt = now + DebounceMs
                 /\ inst'[i].runLog = inst[i].runLog
                 /\ inst'[i].coalesced <=> inst[i].refreshTimeoutAt # None
          /\ (inst'[i].runLog # inst[i].runLog) =>
                 LET r == inst'[i].runLog
                 IN /\ last'[1] = "debounced-refresh" /\ last'[2] = i
                    /\ Len(r) = Len(inst[i].runLog) + 1
                    /\ r[Len(r)] = inst[i].armedAt
                    /\ now - inst[i].armedAt >= DebounceMs
                    /\ inst[i].refreshTimeoutAt = inst[i].armedAt + DebounceMs
                    /\ Len(r) > 1 => r[Len(r)] - r[Len(r) - 1] >= DebounceMs
                    /\ inst'[i].resizeObserverCallCount = 0
                    /\ inst'[i].refreshTimeoutAt = None
          /\ (inst[i].refreshTimeoutAt # None /\ inst'[i].refreshTimeoutAt = None) =>
                 inst'[i].runLog # inst[i].runLog]_vars

\* two notifications less than 300 ms apart armed the debounce one after the
\* other, and one refresh has run for both, leaving the count of calls at 0
C28_Witness ==
    \E i \in Inst :
        /\ last[1] = "debounced-refresh" /\ last[2] = i
        /\ inst[i].coalesced
        /\ Len(inst[i].runLog) = 1
        /\ inst[i].resizeObserverCallCount = 0
        /\ now = inst[i].armedAt + DebounceMs

---------------------------------------------------------------------------
(* The number of clones one build attaches, under SpecCover (forced mode)  *)
(* and SpecMeasure (normal mode).                                          *)

\* the clones attached to the strip of instance i, appended and prepended
Clones(i) == SelectSeq(inst[i].children, IsClone)

\* C29: a strip built in forced mode holds at most 100 clones, and at most
\* 20 repeat-sets of them, in both directions.
C29_ForcedClonesBounded ==
    \A i \in Inst :
        (inst[i].forceAnimationEnabled /\ inst[i].contentSetup) =>
            /\ Len(Clones(i)) <= MaxClones
            /\ Len(Clones(i)) <= MaxSets * Len(inst[i].items)

---------------------------------------------------------------------------
(* SpecPortrait: one instance in a window taller than wide, horizontal and *)
(* vertical, forward and reverse, over a strip of three items that is      *)
(* rebuilt while the page changes the container and the items.             *)

PortraitWindow == [innerWidth |-> 6, innerHeight |-> 20]
PortraitSizes == {4, 10}
PortraitItems == {1, 4}

PortraitOptions ==
    {[DefaultOptions EXCEPT !.vertical = ve, !.reverse = re] : ve \in BOOLEAN, re \in BOOLEAN}

InitPortrait ==
    /\ registry = [k \in 1 .. NumInst |-> k]
    /\ win = PortraitWindow
    /\ now = 0
    /\ last = <<"new", 0, 1>>
    /\ snapshot = NoSnapshot
    /\ page = BoundPage
    /\ api = BoundApi
    /\ options \in [Inst -> PortraitOptions]
    /\ rect \in [Inst -> [width : PortraitSizes \cup {InnerWidth},
                          height : PortraitSizes \cup {InnerHeight}]]
    /\ itemSize \in [Inst -> Uniform(PortraitItems)]
    /\ rect[1] \in [width : PortraitSizes, height : PortraitSizes]
    /\ \A i \in Inst \ {1} : Quiet(i)
    /\ inst = [i \in Inst |-> Constructed(i, 3)]

NextPortrait ==
    \/ Refresh(1)
    \/ Resume(1)
    \/ RefreshGuardTimer(1)
    \/ \E w \in PortraitSizes : ContainerResized(1, w)
    \/ \E sz \in PortraitItems : ContentResized(1, sz)
    \/ Tick(RefreshGuardMs, MaxTicks * RefreshGuardMs)

SpecPortrait == InitPortrait /\ [][NextPortrait]_vars

\* the clones appended after the originals of a strip
AppendedClones(s) == SelectSeq(s.children, LAMBDA e : e.cls = "clone")

\* what C30 says of a strip s that instance i has just built in normal mode
WholeCopies(s, i) ==
    (s.contentSetup /\ ~s.forceAnimationEnabled /\ Len(s.items) > 0) =>
        LET n == Len(s.items)
            a == AppendedClones(s)
            repeatCount == Len(a) \div n
            referenceSize ==
                Max(s.containerSize,
                    IF options[i].vertical THEN win.innerHeight ELSE win.innerWidth)
        IN /\ Len(a) = repeatCount * n
           /\ \A k \in 1 .. Len(a) : a[k].id = s.items[((k - 1) % n) + 1]
           /\ repeatCount >= options[i].repeatCount
           /\ repeatCount * s.contentSize >= referenceSize * options[i].repeatCount

\* C30: a strip built in normal mode, at construction or by a refresh that
\* the guard let through, holds after its originals repeatCount whole copies
\* of the item sequence, with repeatCount at least the configured minimum and
\* repeatCount * contentSize at least the minimum times the larger of the
\* measured viewport size and the window's extent, both taken along the
\* scroll axis.
C30_NormalRepeatCount ==
    /\ \A i \in Inst : WholeCopies(inst[i], i)
    /\ [][\A i \in Inst :
             (last'[1] = "refresh" /\ last'[2] = i
              /\ ~inst[i].isRefreshing /\ ~inst[i].isInitializing)
                 => WholeCopies(inst'[i], i)]_vars

\* the clones prepended before the originals of a strip
PrependedClones(s) == SelectSeq(s.children, LAMBDA e : e.cls = "prepend")

\* what C31 says of a strip s that instance i has just built
WholePrepends(s, i) ==
    (s.contentSetup /\ Len(s.items) > 0) =>
        LET n == Len(s.items)
            p == PrependedClones(s)
            referenceSize ==
                Max(s.containerSize,
                    IF options[i].vertical THEN win.innerHeight ELSE win.innerWidth)
            sets == Max(MinPrependSets, Ceil(referenceSize, s.contentSize) + 1)
        IN IF options[i].reverse
           THEN /\ Len(p) = sets * n
                /\ \A k \in 1 .. Len(p) : p[k].id = s.items[((k - 1) % n) + 1]
                /\ \A k \in 1 .. Len(p) : s.children[k] = p[k]
                /\ s.prependWidth = sets * s.loopWidth
           ELSE Len(p) = 0 /\ s.prependWidth = 0

\* C31: a strip built in reverse mode, at construction or by a refresh that
\* the guard let through, starts with max(2, ceil(referenceSize / contentSize)
\* + 1) whole copies of the item sequence, referenceSize taken along the
\* scroll axis, and prependWidth is that number times the loop period; a
\* strip built in forward mode has no prepended clone and prependWidth 0.
C31_ReversePrepend ==
    /\ \A i \in Inst : WholePrepends(inst[i], i)
    /\ [][\A i \in Inst :
             (last'[1] = "refresh" /\ last'[2] = i
              /\ ~inst[i].isRefreshing /\ ~inst[i].isInitializing)
                 => WholePrepends(inst'[i], i)]_vars

---------------------------------------------------------------------------
(* SpecClones: the items of one instance are added and removed and the     *)
(* strip is refreshed again and again, forward and reverse, on a page      *)
(* whose sizes never change.  A clone carries the id of the item it        *)
(* copies, so a clone taken for an item shows as an id held twice.         *)

InitClones ==
    /\ InitHost
    /\ \E re \in BOOLEAN, w \in ItemWidths, sz \in AddedSizes :
          /\ options = [i \in Inst |-> IF i = 1 THEN [DefaultOptions EXCEPT !.reverse = re]
                                       ELSE DefaultOptions]
          /\ rect = [i \in Inst |-> [width |-> IF i = 1 THEN w ELSE InnerWidth,
                                     height |-> InnerHeight]]
          /\ itemSize = [i \in Inst |-> [id \in ItemIds |-> IF i = 1 THEN sz ELSE 1]]
    /\ inst = [i \in Inst |-> Constructed(i, 2)]

NextClones ==
    \/ Refresh(1)
    \/ AddItem(1)
    \/ RemoveItem(1)
    \/ RefreshGuardTimer(1)
    \/ Tick(RefreshGuardMs, MaxTicks * RefreshGuardMs)

SpecClones == InitClones /\ [][NextClones]_vars

\* the extent of the items of the list, each counted once, with the gaps
OriginalsExtent(i) ==
    LET ids == {inst[i].items[k] : k \in 1 .. Len(inst[i].items)}
    IN SumSeq([id \in ItemIds |-> IF id \in ids THEN itemSize[i][id] ELSE 0])
           + options[i].gap * (Len(inst[i].items) - 1)

\* C32: the item list never holds an element twice, so never a clone beside
\* the item it copies, and contentSize is at most the extent of those items;
\* a refresh that finds the item list as it was leaves contentSize and the
\* number of attached clones as they were.
C32_ItemsAreOriginals ==
    /\ [](\A i \in Inst :
             /\ \A j, k \in 1 .. Len(inst[i].items) :
                    j # k => inst[i].items[j] # inst[i].items[k]
             /\ Len(inst[i].items) > 0 => inst[i].contentSize <= OriginalsExtent(i))
    /\ [][\A i \in Inst :
             (last'[1] = "refresh" /\ last'[2] = i
              /\ ~inst[i].isRefreshing /\ ~inst[i].isInitializing
              /\ inst[i].contentSetup
              /\ Originals(inst[i].children) = inst[i].items)
                 => /\ inst'[i].items = inst[i].items
                    /\ inst'[i].contentSize = inst[i].contentSize
                    /\ CloneCount(inst'[i]) = CloneCount(inst[i])]_vars

\* a refresh that the guard let through has rebuilt a reverse strip that
\* already held appended and prepended clones, after an earlier refresh
C32_Witness ==
    \E i \in Inst :
        /\ last = <<"refresh", i, 2>>
        /\ inst[i].refreshGuardAt = now + RefreshGuardMs
        /\ now >= RefreshGuardMs
        /\ PrependCount(inst[i]) > 0
        /\ CloneCount(inst[i]) > PrependCount(inst[i])

---------------------------------------------------------------------------
(* SpecAdaptive: one instance with adaptivePause, with and without         *)
(* syncPause, in a window that is resized across the width of 1024, while  *)
(* the pointer enters and leaves its container and the user clicks in it   *)
(* and elsewhere.                                                          *)

AdaptiveWindows == {DesktopWidth - 1, DesktopWidth, DesktopWidth + 1}
AdaptiveSizes == {1, 700}

AdaptiveOptions ==
    {[DefaultOptions EXCEPT !.adaptivePause = TRUE, !.syncPause = sy] : sy \in BOOLEAN}

InitAdaptive ==
    /\ registry = [k \in 1 .. NumInst |-> k]
    /\ now = 0
    /\ last = <<"new", 0, 1>>
    /\ snapshot = NoSnapshot
    /\ page = BoundPage
    /\ api = BoundApi
    /\ \E w \in AdaptiveWindows, o \in AdaptiveOptions, sz \in AdaptiveSizes :
          /\ win = [innerWidth |-> w, innerHeight |-> InnerHeight]
          /\ options = [i \in Inst |-> IF i = 1 THEN o ELSE DefaultOptions]
          /\ itemSize = [i \in Inst |-> [id \in ItemIds |-> IF i = 1 THEN sz ELSE 700]]
    /\ rect = [i \in Inst |-> [width |-> DesktopWidth, height |-> InnerHeight]]
    /\ inst = [i \in Inst |-> interactionBindings(Constructed(i, StripItems), i)]

NextAdaptive ==
    \/ \E w \in AdaptiveWindows : WindowResized(w)
    \/ MouseEnter(1)
    \/ MouseLeave(1)
    \/ \E i \in Inst : Click(i)
    \/ ClickOutside
    \/ \E sz \in AdaptiveSizes : ContentResized(1, sz)

SpecAdaptive == InitAdaptive /\ [][NextAdaptive]_vars

\* C33: an instance with adaptivePause has exactly one interaction binding
\* attached, the one its fields hold: the hover pair in a window 1024 wide or
\* wider, the click pair in a narrower one.  With the hover pair, entering
\* calls pause() and leaving calls resume(), and a click in the container
\* changes nothing; with the click pair, a click in the container calls
\* resume() on a paused and pause() on an unpaused instance, a click
\* elsewhere calls resume() on a paused instance, and the pointer changes
\* nothing.
C33_AdaptiveBinding ==
    /\ [](\A i \in Inst :
             options[i].adaptivePause =>
                 inst[i].attached =
                     IF win.innerWidth >= DesktopWidth
                     THEN {Listener("hover", inst[i].hoverRef)}
                     ELSE {Listener("click", inst[i].clickRef)})
    /\ [][\A i \in Inst :
             options[i].adaptivePause =>
                 LET desktop == win.innerWidth >= DesktopWidth
                 IN /\ (last'[1] = "mouseenter" /\ last'[2] = i) =>
                           inst' = IF desktop THEN pause(inst, i) ELSE inst
                    /\ (last'[1] = "mouseleave" /\ last'[2] = i) =>
                           inst' = IF desktop THEN resume(inst, i) ELSE inst
                    /\ (last'[1] = "click" /\ last'[2] = i) =>
                           inst' = IF desktop THEN inst
                                   ELSE IF inst[i].isPaused THEN resume(inst, i)
                                   ELSE pause(inst, i)
                    /\ (last'[1] = "click" /\ last'[2] # i) =>
                           inst'[i].isPaused =
                               (inst[i].isPaused
                                /\ (desktop \/ resume(inst, i)[i].isPaused))]_vars

\* the window has been resized from 1024 or wider to narrower: the hover
\* pair, bound before, is gone and the click pair is the one attached
C33_Witness ==
    \E i \in Inst :
        /\ options[i].adaptivePause
        /\ win.innerWidth < DesktopWidth
        /\ inst[i].hoverRef # 0
        /\ inst[i].attached = {Listener("click", inst[i].clickRef)}
        /\ last[1] = "click" /\ last[2] = i
        /\ inst[i].isPaused

---------------------------------------------------------------------------
(* SpecSync: instance 1, with or without syncPause, among peers that pause *)
(* and resume with syncPause.  Instance 1 is bound over a strip of two      *)
(* items whose extent the page may change; its peers overflow theirs.      *)
(* Instance 1 takes start, stop, refresh, pause and resume, its frames and *)
(* its refresh guard, while time passes.                                   *)

SyncSizes == {0, 3}

InitSync ==
    /\ InitHost
    /\ \E sy \in BOOLEAN, sz \in SyncSizes :
          /\ options = [i \in Inst |-> [DefaultOptions EXCEPT !.speed = 4,
                                                              !.syncPause = (i # 1 \/ sy)]]
          /\ itemSize = [i \in Inst |-> [id \in ItemIds |-> IF i = 1 THEN sz ELSE 3]]
    /\ rect = [i \in Inst |-> [width |-> PeerWidth, height |-> InnerHeight]]
    /\ inst = [i \in Inst |-> Constructed(i, 2)]

NextSync ==
    \/ Start(1)
    \/ Stop(1)
    \/ Refresh(1)
    \/ Frame(1)
    \/ RefreshGuardTimer(1)
    \/ \E i \in Inst : Pause(i)
    \/ \E i \in Inst : Resume(i)
    \/ \E sz \in SyncSizes : ContentResized(1, sz)
    \/ Tick(RefreshGuardMs, MaxTicks * RefreshGuardMs)

SpecSync == InitSync /\ [][NextSync]_vars

\* C34: in every reachable state an instance whose latest measurement says
\* it should not animate (shouldAnimate false) is Stopped or Paused, whatever
\* own operations, frames and peers' synced pauses and resumes came before;
\* a frame of such an instance leaves its translation where it was.
C34_StaticNeverAdvances ==
    /\ [](\A i \in Inst : ~inst[i].shouldAnimate => ~Running(i))
    /\ [][\A i \in Inst :
             (~inst[i].shouldAnimate /\ last'[1] = "frame" /\ last'[2] = i /\ inst' # inst) =>
                 inst'[i].currentTranslate = inst[i].currentTranslate]_vars

\* a peer's synced resume has just measured a paused instance, found that its
\* content fits now, and left it paused with its frame loop alive
C34_Witness ==
    \E i \in Inst :
        /\ last[1] = "resume" /\ last[2] # i
        /\ options[last[2]].syncPause
        /\ inst[last[2]].shouldAnimate
        /\ ~inst[i].shouldAnimate
        /\ inst[i].isAnimating /\ inst[i].isPaused
        /\ inst[i].contentSetup

\* C35: in every reachable state each instance has at most one per-frame
\* callback queued, whatever starts, resumes, refreshes, stops and peers'
\* synced resumes came before; a frame that runs advances the translation by
\* the time since the last one, once, and queues the only callback again.
C35_OneFrameCallback ==
    /\ [](\A i \in Inst : inst[i].rafPending <= 1)
    /\ [][\A i \in Inst :
             (/\ last'[1] = "frame" /\ last'[2] = i /\ Running(i)
              /\ inst' # inst /\ inst'[i].refreshGuardAt = inst[i].refreshGuardAt) =>
                 /\ inst'[i].rafPending = 1
                 /\ inst'[i].travelled = inst[i].travelled + options[i].speed * (now - inst[i].lastTime)]_vars

\* start() called twice in a row on an animating instance: the callback the
\* first call queued was cancelled by the second, and one is queued
C35_Witness ==
    /\ last = <<"start", 1, 2>>
    /\ inst[1].isAnimating
    /\ inst[1].rafPending = 1
    /\ inst[1].animationId = "pending"

\* C36: a paused instance stays paused, its translation frozen, through every
\* step that is not a resume (its own or a peer's) or a start: a refresh of
\* the instance while it is paused leaves it paused.
C36_PausedUntilResumed ==
    [][\A i \in Inst :
          (inst[i].isPaused /\ ~(last'[1] \in {"resume", "start"} /\ now' = now)) =>
              /\ inst'[i].isPaused
              /\ inst'[i].currentTranslate = inst[i].currentTranslate]_vars

---------------------------------------------------------------------------
(* SpecStopped: instance 1 pauses and resumes, with and without syncPause, *)
(* beside peers that are only ever stopped.  Every instance is bound over  *)
(* overflowing content, so each is Running after construction and a peer   *)
(* is Stopped only once stop() was called on it; start, refresh and resume *)
(* are never called on a peer.  The page changes the extent of the items   *)
(* between two overflowing sizes, frames run and time passes.              *)

StoppedSizes == {3, 5}

InitStopped ==
    /\ InitHost
    /\ \E sy \in [Inst -> BOOLEAN], sz \in [Inst -> StoppedSizes] :
          /\ options = [i \in Inst |-> [DefaultOptions EXCEPT !.speed = 4, !.syncPause = sy[i]]]
          /\ itemSize = [i \in Inst |-> [id \in ItemIds |-> sz[i]]]
    /\ rect = [i \in Inst |-> [width |-> PeerWidth, height |-> InnerHeight]]
    /\ inst = [i \in Inst |-> Constructed(i, 2)]

NextStopped ==
    \/ Pause(1)
    \/ Resume(1)
    \/ \E i \in Inst \ {1} : Stop(i)
    \/ \E i \in Inst : Frame(i)
    \/ \E i \in Inst, sz \in StoppedSizes : ContentResized(i, sz)
    \/ Tick(RefreshGuardMs, MaxTicks * RefreshGuardMs)

SpecStopped == InitStopped /\ [][NextStopped]_vars

\* C37: every instance is Running once bound, and an instance stopped with
\* stop() stays Stopped while start, refresh and resume are not called on it:
\* pause() and resume() on another instance, with or without syncPause, never
\* move it out of Stopped.
C37_StoppedStaysStopped ==
    /\ \A i \in Inst : Running(i)
    /\ [][\A i \in Inst \ {1} : ~inst[i].isAnimating => ~inst'[i].isAnimating]_vars

---------------------------------------------------------------------------
\* C38: when refresh(), addItem() or removeItem() returns, the item list is
\* the strip's non-clone children in order and the loop period is the one of
\* that list, however close in time the call follows the previous one.
C38_ItemsFollowTheStrip ==
    [][\A i \in Inst :
          (/\ last'[1] \in {"refresh", "addItem", "removeItem"} /\ last'[2] = i
           /\ now' = now
           /\ inst'[i].refreshGuardAt # None) =>
              /\ inst'[i].items = Originals(inst'[i].children)
              /\ inst'[i].shouldAnimate =>
                     inst'[i].loopWidth = inst'[i].contentSize + options[i].gap]_vars

---------------------------------------------------------------------------
(* SpecObserve: the host's side of the size observer, with fairness.  The  *)
(* observer notifies once for every change of the observed box, the first  *)
(* time right after observe(), and before any time passes; timers run at   *)
(* their deadlines.  The page resizes the container of instance 1 by 12    *)
(* units, at any moment up to ResizeUntil and up to MaxNotify times        *)
(* between two debounced refreshes; the instance was bound                 *)
(* ObserveStart after the time origin, so that the first notification is   *)
(* not taken for a burst.  Weak fairness: a notification that is due is    *)
(* delivered, a timer that is due runs, and time passes.                   *)

ObserveStart == 2 * RateLimitMs
ObserveGap == 2 * RateLimitMs
ResizeUntil == ObserveStart + DebounceMs + RefreshGuardMs
ObserveHorizon == ResizeUntil + DebounceMs + RefreshGuardMs

InitObserve ==
    /\ registry = [k \in 1 .. NumInst |-> k]
    /\ win = [innerWidth |-> InnerWidth, innerHeight |-> InnerHeight]
    /\ now = ObserveStart
    /\ last = <<"new", 0, 1>>
    /\ snapshot = NoSnapshot
    /\ page = BoundPage
    /\ api = BoundApi
    /\ options = [i \in Inst |-> DefaultOptions]
    /\ \E w \in GuardWidths :
          rect = [i \in Inst |-> [width |-> IF i = 1 THEN w ELSE InnerWidth,
                                  height |-> InnerHeight]]
    /\ itemSize = [i \in Inst |-> [id \in ItemIds |-> 1]]
    /\ inst = [i \in Inst |-> Constructed(i, 2)]

Undelivered(i) == inst[i].roConnected /\ rect[i] # inst[i].roReported

PageResizes ==
    /\ now <= ResizeUntil
    /\ inst[1].resizeObserverCallCount < MaxNotify
    /\ \E w \in GuardWidths : ContainerResized(1, w)

Elapse ==
    /\ \A i \in Inst : ~Undelivered(i)
    /\ Tick(ObserveGap, ObserveHorizon)

NextObserve ==
    \/ \E i \in Inst : SizeObserved(i)
    \/ DebouncedRefresh(1)
    \/ RefreshGuardTimer(1)
    \/ PageResizes
    \/ Elapse

SpecObserve ==
    /\ InitObserve
    /\ [][NextObserve]_vars
    /\ \A i \in Inst : WF_vars(SizeObserved(i))
    /\ WF_vars(DebouncedRefresh(1))
    /\ WF_vars(RefreshGuardTimer(1))
    /\ WF_vars(Elapse)

\* C39: under fair timers, when the container's width has changed by a real
\* amount (12 units here) and then stays what it is, with the observer still
\* connected, the instance is eventually measured again and its stored
\* viewport size is the container's from then on, also for a change that
\* comes less than 500 ms after a refresh.
C39_EventuallyMeasured ==
    \A w \in GuardWidths :
        <>[](rect[1].width = w /\ inst[1].roConnected) => <>[](inst[1].containerWidth = w)

---------------------------------------------------------------------------
\* C40: a binding constructed over a container whose instance was destroyed
\* holds a fully initialized instance of it: registered, measured, with its
\* clones built, and Running when its content overflows the viewport.
C40_RebindAfterDestroy ==
    [][\A c \in Inst :
          \A b \in api'.bindings \ api.bindings :
              (/\ last'[1] = "new"
               /\ inst[c].live = "destroyed"
               /\ \E j \in 1 .. Len(b) : b[j].c = c) =>
                  /\ \A j \in 1 .. Len(b) : b[j].c = c => b[j].full
                  /\ inst'[c].live = "live"
                  /\ \E k \in 1 .. Len(registry') : registry'[k] = c
                  /\ inst'[c].containerWidth = rect[c].width
                  /\ inst'[c].contentSize = ActualContentSize(c)
                  /\ ActualContentSize(c) > ActualContainerSize(c) + 1 =>
                         /\ inst'[c].contentSetup
                         /\ CloneCount(inst'[c]) > 0
                         /\ inst'[c].isAnimating /\ ~inst'[c].isPaused]_vars

====
